---- MODULE Spec2Model ----
(***************************************************************************)
(* Model of the signed-command privileged execution broker                 *)
(* (src-tauri/crates/configarc-core/src/privexec.rs): the request pipeline *)
(* execute_request / execute_locked, the state stores (nonces, command     *)
(* records, sessions), the policy hot-update with atomic file replacement, *)
(* and the core lock.                                                      *)
(*                                                                         *)
(* Conventions of the model                                                *)
(*  - time is an integer number of seconds (Utc::now() is the variable     *)
(*    now, advanced by Tick);                                              *)
(*  - an Option<T> is a set with at most one element;                      *)
(*  - a HashMap / JSON object is a function on its key set;                *)
(*  - a JSON value is a record whose only field names its type:            *)
(*    [str |-> s], [bool |-> b], [int |-> i];                              *)
(*  - the canonical signing bytes and the SHA-256 digest are injective     *)
(*    constructors over the value they are computed from;                  *)
(*  - a signature is the pair (key that produced it, bytes it was made     *)
(*    over); it verifies under a public key iff both agree.                *)
(***************************************************************************)
EXTENDS Integers, Sequences, FiniteSets, TLC

VARIABLES
    config,      \* PrivExecConfig: bootstrap keys, fault-injection flag
    verifiers,   \* PrivExecCore.verifiers: registered (lowercased) algorithms
    policyFile,  \* policy.json      (Option of file content)
    policyTmp,   \* policy.json.tmp  (Option of file content)
    policyBak,   \* policy.json.bak  (Option of file content)
    nonces,      \* state/nonces.json   : nonce -> unix seconds
    commands,    \* state/commands.json : commandId -> StoredCommandRecord
    sessions,    \* state/sessions.json : sessionId -> SessionRecord
    now,         \* the clock
    faults,      \* how many calls have met a failing file system so far
    accepted,    \* the highest version a policy update has succeeded at (0: none)
    state_lock,  \* per core instance: the threads holding its state_lock (at most one)
    threads,     \* per thread calling a core from outside: where its call stands
    last,        \* what the most recent call received, returned and did
    auditLog,    \* logs/audit.jsonl: the lines appended so far
    auditRoom,   \* how many more lines the volume of logs/audit.jsonl takes
    nanos,       \* the clock below the second: readings taken for session ids
    leases,      \* the sessions handed out so far and what became of each
    dispatched   \* the commandIds a handler has been run for so far

vars == <<config, verifiers, policyFile, policyTmp, policyBak,
          nonces, commands, sessions, now, faults, accepted,
          state_lock, threads, last, auditLog, auditRoom,
          nanos, leases, dispatched>>

----------------------------------------------------------------------------
(* Bounds of the model *)

(* logs/audit.jsonl takes MaxLog lines before its volume is full *)
MaxLog == 2

(* a JSON object of the canonicalisation inputs has up to MaxKeys keys *)
MaxKeys == 2

(* the clock runs from 0 to MaxTime *)
MaxTime == 2

(* calls that meet a failing file system in one behaviour *)
MaxFaults == 1

(* policy versions run from 1 to MaxVersion *)
MaxVersion == 3

(* threads calling concurrently, and core instances built on the root directory *)
MaxThreads == 2
MaxCores == 2

----------------------------------------------------------------------------
(* Program constants *)

SCHEMA_VERSION == 1

DeviceId == "device-1"

EmptyMap == [k \in {} |-> 0]

Max(a, b) == IF a >= b THEN a ELSE b

(* to_lowercase / eq_ignore_ascii_case on the names the model uses *)
ToLower(s) ==
    CASE s = "ED25519" -> "ed25519"
      [] s = "QUERY_DISK" -> "query_disk"
      [] s = "Restart_Service" -> "restart_service"
      [] OTHER -> s

EqIgnoreAsciiCase(a, b) == ToLower(a) = ToLower(b)

(* str::trim().is_empty() on the strings the model uses *)
IsBlank(s) == s \in {"", " "}

(* String::len() > 128 on the strings the model uses *)
LongerThan128(s) == s = "c-129-chars"

----------------------------------------------------------------------------
(* Canonical bytes, digest, signatures *)

signing_bytes(payload) == <<"canonical", payload>>

sha256_hex(bytes) == <<"sha256", bytes>>

(* Ed25519Verifier::verify: the key and the signature must decode, and the  *)
(* signature must be one made by that key over exactly these bytes.         *)
Ed25519Verify(public_key, payload_bytes, signature) ==
    /\ public_key # "not-base64"
    /\ signature.key # "not-base64"
    /\ signature.key = public_key
    /\ signature.over = payload_bytes

(* every registered verifier of the model checks signatures the same way *)
VerifierVerify(algo, public_key, payload_bytes, signature) ==
    Ed25519Verify(public_key, payload_bytes, signature)

(* faulty variant: the key is looked up but the verifier is never asked *)
verify_with_keys_unchecked(signature, payload_bytes, keys, expected_algorithm, invalid_signature_code) ==
    IF signature.keyId \notin DOMAIN keys THEN invalid_signature_code ELSE "OK"


verify_with_keys(signature, payload_bytes, keys, expected_algorithm, invalid_signature_code) ==
    IF signature.keyId \notin DOMAIN keys THEN invalid_signature_code
    ELSE LET key == keys[signature.keyId]
             algo == ToLower(signature.algorithm)
         IN IF \E expected \in expected_algorithm : ~EqIgnoreAsciiCase(algo, expected)
            THEN "UNSUPPORTED_SIGNATURE_ALGORITHM"
            ELSE IF algo \notin verifiers
            THEN "UNSUPPORTED_SIGNATURE_ALGORITHM"
            ELSE IF VerifierVerify(algo, key, payload_bytes, signature.signature)
            THEN "OK"
            ELSE invalid_signature_code

(* faulty variant: the validity window is checked before the device binding *)
verify_request_security_window_first(request, payload_bytes, policy, t) ==
    LET keys == IF DOMAIN policy.security.publicKeys # {}
                THEN policy.security.publicKeys
                ELSE config.bootstrapPublicKeys
        sig == IF policy.security.requireSignature
               THEN verify_with_keys(request.signature, payload_bytes, keys,
                                     {policy.security.signatureAlgorithm},
                                     "INVALID_SIGNATURE")
               ELSE "OK"
        skew == Max(policy.security.maxClockSkewSeconds, 0)
    IN IF sig # "OK" THEN sig
       ELSE IF request.payload.expiresAt < request.payload.issuedAt
       THEN "INVALID_SCHEMA"
       ELSE IF t < request.payload.issuedAt - skew
       THEN "REQUEST_NOT_YET_VALID"
       ELSE IF t > request.payload.expiresAt + skew
       THEN "REQUEST_EXPIRED"
       ELSE IF policy.security.requireDeviceBinding /\ request.payload.deviceId # DeviceId
       THEN "DEVICE_ID_MISMATCH"
       ELSE "OK"

(* faulty variant: a negative maxClockSkewSeconds is used as it is *)
verify_request_security_raw_skew(request, payload_bytes, policy, t) ==
    LET keys == IF DOMAIN policy.security.publicKeys # {}
                THEN policy.security.publicKeys
                ELSE config.bootstrapPublicKeys
        sig == IF policy.security.requireSignature
               THEN verify_with_keys(request.signature, payload_bytes, keys,
                                     {policy.security.signatureAlgorithm},
                                     "INVALID_SIGNATURE")
               ELSE "OK"
        skew == policy.security.maxClockSkewSeconds
    IN IF sig # "OK" THEN sig
       ELSE IF policy.security.requireDeviceBinding /\ request.payload.deviceId # DeviceId
       THEN "DEVICE_ID_MISMATCH"
       ELSE IF request.payload.expiresAt < request.payload.issuedAt
       THEN "INVALID_SCHEMA"
       ELSE IF t < request.payload.issuedAt - skew
       THEN "REQUEST_NOT_YET_VALID"
       ELSE IF t > request.payload.expiresAt + skew
       THEN "REQUEST_EXPIRED"
       ELSE "OK"

verify_request_security(request, payload_bytes, policy, t) ==
    LET keys == IF DOMAIN policy.security.publicKeys # {}
                THEN policy.security.publicKeys
                ELSE config.bootstrapPublicKeys
        sig == IF policy.security.requireSignature
               THEN verify_with_keys(request.signature, payload_bytes, keys,
                                     {policy.security.signatureAlgorithm},
                                     "INVALID_SIGNATURE")
               ELSE "OK"
        skew == Max(policy.security.maxClockSkewSeconds, 0)
    IN IF sig # "OK" THEN sig
       ELSE IF policy.security.requireDeviceBinding /\ request.payload.deviceId # DeviceId
       THEN "DEVICE_ID_MISMATCH"
       ELSE IF request.payload.expiresAt < request.payload.issuedAt
       THEN "INVALID_SCHEMA"
       ELSE IF t < request.payload.issuedAt - skew
       THEN "REQUEST_NOT_YET_VALID"
       ELSE IF t > request.payload.expiresAt + skew
       THEN "REQUEST_EXPIRED"
       ELSE "OK"

validate_payload_basic(payload) ==
    IF payload.schemaVersion # SCHEMA_VERSION THEN "INVALID_SCHEMA"
    ELSE IF \/ IsBlank(payload.commandId)
            \/ LongerThan128(payload.commandId)
            \/ IsBlank(payload.nonce)
            \/ IsBlank(payload.deviceId)
            \/ IsBlank(payload.command)
    THEN "INVALID_SCHEMA"
    ELSE "OK"

(* load_policy: the file is absent, does not parse, or yields the policy *)
load_policy ==
    IF policyFile = {} THEN [code |-> "POLICY_NOT_FOUND", policy |-> {}]
    ELSE IF \E f \in policyFile : f.kind # "policy"
    THEN [code |-> "POLICY_INVALID", policy |-> {}]
    ELSE [code |-> "OK", policy |-> policyFile]

----------------------------------------------------------------------------
(* Strings held in JSON values are sequences: a plain string is a one-token *)
(* sequence, a path is its sequence of characters, a session id is the seed *)
(* tuple its digest is computed from; the empty string is <<>>.             *)

Str(s) == <<s>>

StrIsEmpty(v) == v = <<>>

StrIsBlank(v) == v \in {<<>>, <<" ">>}

LowerChar(c) ==
    CASE c = "C" -> "c" [] c = "V" -> "v" [] c = "H" -> "h" [] c = "D" -> "d"
      [] c = "A" -> "a" [] c = "T" -> "t" [] OTHER -> c

LowerSeq(s) == [i \in 1..Len(s) |-> LowerChar(s[i])]

StartsWith(s, prefix) ==
    /\ Len(prefix) <= Len(s)
    /\ SubSeq(s, 1, Len(prefix)) = prefix

(* the files and directories that exist, by canonical path *)
DirVhd == <<"C", ":", "\\", "v">>
FileVhdA == <<"C", ":", "\\", "v", "\\", "a", ".", "v", "h", "d">>
FileSibling == <<"C", ":", "\\", "v", "2", "\\", "a", ".", "V", "H", "D">>
FileTxt == <<"C", ":", "\\", "v", "\\", "t", ".", "t", "x", "t">>

(* a path that leaves the root through a parent segment *)
FileDotDot == <<"C", ":", "\\", "v", "\\", ".", ".", "\\", "v", "2", "\\", "a", ".", "V", "H", "D">>

ExistingPaths == {DirVhd, FileVhdA, FileSibling, FileTxt, <<"C", ":", "\\", "v", "2">>}

(* Path::is_absolute for a drive-letter path *)
IsAbsolute(raw) == Len(raw) >= 3 /\ raw[2] = ":" /\ raw[3] \in {"\\", "/"}

(* fs::canonicalize: resolves relative segments; fails when nothing is there *)
FsCanonicalize(raw) ==
    IF raw = FileDotDot THEN {FileSibling}
    ELSE IF raw \in ExistingPaths THEN {raw}
    ELSE {}

canonicalize_secure_path(path) ==
    IF ~IsAbsolute(path) THEN [code |-> "PATH_NOT_ALLOWED", path |-> <<>>]
    ELSE IF FsCanonicalize(path) = {} THEN [code |-> "PATH_NOT_FOUND", path |-> <<>>]
    ELSE [code |-> "OK", path |-> CHOOSE c \in FsCanonicalize(path) : TRUE]

(* Path::extension of the last component, as Option *)
LastSep(p) ==
    LET idx == {i \in 1..Len(p) : p[i] \in {"\\", "/"}}
    IN IF idx = {} THEN 0 ELSE CHOOSE i \in idx : \A j \in idx : j <= i

PathExtension(p) ==
    LET start == LastSep(p) + 1
        dots == {i \in (start + 1)..Len(p) : p[i] = "."}
    IN IF dots = {} THEN {}
       ELSE LET d == CHOOSE i \in dots : \A j \in dots : j <= i
            IN {SubSeq(p, d + 1, Len(p))}

is_under_root(path, root) ==
    LET norm(x) == LowerSeq([i \in 1..Len(x) |-> IF x[i] = "/" THEN "\\" ELSE x[i]])
        slash(x) == IF Len(x) > 0 /\ x[Len(x)] = "\\" THEN x ELSE Append(x, "\\")
    IN StartsWith(slash(norm(path)), slash(norm(root)))

----------------------------------------------------------------------------
(* Parameter validation *)

resolve_string_param(name, params, required, default) ==
    IF name \in DOMAIN params
    THEN IF "str" \in DOMAIN params[name]
         THEN [code |-> "OK", value |-> params[name].str]
         ELSE [code |-> "INVALID_PARAMETER", value |-> <<>>]
    ELSE IF default # {} THEN [code |-> "OK", value |-> CHOOSE d \in default : TRUE]
    ELSE IF required THEN [code |-> "INVALID_PARAMETER", value |-> <<>>]
    ELSE [code |-> "OK", value |-> <<>>]

resolve_bool_param(name, params, required, default) ==
    IF name \in DOMAIN params
    THEN IF "bool" \in DOMAIN params[name]
         THEN [code |-> "OK", value |-> params[name].bool]
         ELSE [code |-> "INVALID_PARAMETER", value |-> FALSE]
    ELSE IF default # {} THEN [code |-> "OK", value |-> CHOOSE d \in default : TRUE]
    ELSE IF required THEN [code |-> "INVALID_PARAMETER", value |-> FALSE]
    ELSE [code |-> "OK", value |-> FALSE]

resolve_int_param(name, params, required, default) ==
    IF name \in DOMAIN params
    THEN IF "int" \in DOMAIN params[name]
         THEN [code |-> "OK", value |-> params[name].int]
         ELSE [code |-> "INVALID_PARAMETER", value |-> 0]
    ELSE IF default # {} THEN [code |-> "OK", value |-> CHOOSE d \in default : TRUE]
    ELSE IF required THEN [code |-> "INVALID_PARAMETER", value |-> 0]
    ELSE [code |-> "OK", value |-> 0]

(* One arm of the match in validate_params: the outcome for one rule.      *)
(* code "OK" with out = {} is the `continue` that emits nothing.           *)
Emit(v) == [code |-> "OK", out |-> {v}]
Skip == [code |-> "OK", out |-> {}]
Reject(code) == [code |-> code, out |-> {}]

(* the value a string or path rule works on: the fixed value stands in for *)
(* an empty one                                                            *)
StringValue(rule, r) ==
    IF StrIsEmpty(r.value) /\ rule.fixedValue # {}
    THEN CHOOSE e \in rule.fixedValue : TRUE
    ELSE r.value

(* the value a bool or int rule works on *)
ScalarValue(name, rule, params, r) ==
    IF name \notin DOMAIN params /\ rule.fixedValue # {}
    THEN CHOOSE e \in rule.fixedValue : TRUE
    ELSE r.value

ScalarAbsent(name, rule, params) ==
    name \notin DOMAIN params /\ rule.fixedValue = {} /\ ~rule.required /\ rule.default = {}

(* faulty variant: the value is not compared with the fixed value *)
ValidateStringValue_unpinned(rule, r, value) ==
    IF r.code # "OK" THEN Reject(r.code)
    ELSE IF StrIsEmpty(value) /\ ~rule.required THEN Skip
    ELSE IF rule.allowValues # {} /\ value \notin rule.allowValues
    THEN Reject("INVALID_PARAMETER")
    ELSE Emit([str |-> value])

(* ParamRule::String, given the resolved parameter r and the value *)
ValidateStringValue(rule, r, value) ==
    IF r.code # "OK" THEN Reject(r.code)
    ELSE IF \E e \in rule.fixedValue : value # e THEN Reject("INVALID_PARAMETER")
    ELSE IF StrIsEmpty(value) /\ ~rule.required THEN Skip
    ELSE IF rule.allowValues # {} /\ value \notin rule.allowValues
    THEN Reject("INVALID_PARAMETER")
    ELSE Emit([str |-> value])

ValidateStringResolved(rule, r) == ValidateStringValue(rule, r, StringValue(rule, r))

ValidateString(name, rule, params) ==
    ValidateStringResolved(rule,
        resolve_string_param(name, params, rule.required, rule.default))

(* ParamRule::Bool *)
ValidateBoolValue(name, rule, params, r, value) ==
    IF r.code # "OK" THEN Reject(r.code)
    ELSE IF ScalarAbsent(name, rule, params) THEN Skip
    ELSE IF \E e \in rule.fixedValue : value # e THEN Reject("INVALID_PARAMETER")
    ELSE Emit([bool |-> value])

ValidateBoolResolved(name, rule, params, r) ==
    ValidateBoolValue(name, rule, params, r, ScalarValue(name, rule, params, r))

ValidateBool(name, rule, params) ==
    ValidateBoolResolved(name, rule, params,
        resolve_bool_param(name, params, rule.required, rule.default))

(* ParamRule::Int *)
ValidateIntValue(name, rule, params, r, value) ==
    IF r.code # "OK" THEN Reject(r.code)
    ELSE IF ScalarAbsent(name, rule, params) THEN Skip
    ELSE IF \E e \in rule.fixedValue : value # e THEN Reject("INVALID_PARAMETER")
    ELSE IF \E m \in rule.min : value < m THEN Reject("INVALID_PARAMETER")
    ELSE IF \E m \in rule.max : value > m THEN Reject("INVALID_PARAMETER")
    ELSE Emit([int |-> value])

ValidateIntResolved(name, rule, params, r) ==
    ValidateIntValue(name, rule, params, r, ScalarValue(name, rule, params, r))

ValidateInt(name, rule, params) ==
    ValidateIntResolved(name, rule, params,
        resolve_int_param(name, params, rule.required, rule.default))

(* ParamRule::Path, the loop over allowRoots: roots holds each root as     *)
(* canonicalize_secure_path yields it.  The loop returns at the first root *)
(* that does not canonicalize, unless an earlier root already matched.     *)
CheckAllowRoots(path, roots) ==
    LET idx == 1..Len(roots)
        firstHit == {i \in idx :
                        /\ roots[i].code = "OK" /\ is_under_root(path, roots[i].path)
                        /\ \A j \in 1..(i - 1) :
                              ~(roots[j].code = "OK" /\ is_under_root(path, roots[j].path))}
        firstBad == {i \in idx : /\ roots[i].code # "OK"
                                 /\ \A j \in 1..(i - 1) : roots[j].code = "OK"}
    IN IF \E b \in firstBad : \A h \in firstHit : b < h
       THEN Reject(roots[CHOOSE b \in firstBad : TRUE].code)
       ELSE IF firstHit = {} THEN Reject("PATH_NOT_ALLOWED")
       ELSE Emit([str |-> path])

(* ParamRule::Path once the path is canonical: extension, then roots *)
ValidateCanonicalPath(rule, path, ext) ==
    IF rule.allowExtensions # {} /\ ext = {} THEN Reject("PATH_NOT_ALLOWED")
    ELSE IF rule.allowExtensions # {}
            /\ ~\E a \in rule.allowExtensions : \E e \in ext : LowerSeq(a) = e
    THEN Reject("PATH_NOT_ALLOWED")
    ELSE IF Len(rule.allowRoots) > 0
    THEN CheckAllowRoots(path,
             [i \in 1..Len(rule.allowRoots) |->
                 canonicalize_secure_path(rule.allowRoots[i])])
    ELSE Emit([str |-> path])

ValidatePathCanonical(rule, canonical) ==
    IF canonical.code # "OK" THEN Reject(canonical.code)
    ELSE ValidateCanonicalPath(rule, canonical.path,
             {<<".">> \o LowerSeq(e) : e \in PathExtension(canonical.path)})

ValidatePathValue(rule, r, value) ==
    IF r.code # "OK" THEN Reject(r.code)
    ELSE IF StrIsEmpty(r.value) /\ rule.fixedValue = {} /\ ~rule.required THEN Skip
    ELSE IF \E e \in rule.fixedValue : value # e THEN Reject("INVALID_PARAMETER")
    ELSE ValidatePathCanonical(rule, canonicalize_secure_path(value))

ValidatePathResolved(rule, r) == ValidatePathValue(rule, r, StringValue(rule, r))

ValidatePath(name, rule, params) ==
    ValidatePathResolved(rule,
        resolve_string_param(name, params, rule.required, rule.default))

ValidateRule(name, rule, params) ==
    CASE rule.kind = "string" -> ValidateString(name, rule, params)
      [] rule.kind = "bool" -> ValidateBool(name, rule, params)
      [] rule.kind = "int" -> ValidateInt(name, rule, params)
      [] rule.kind = "path" -> ValidatePath(name, rule, params)

(* faulty variant: keys without a rule are dropped, not rejected *)
ValidatedBy_drops_undeclared(rules, params, res) ==
    IF \E n \in DOMAIN rules : res[n].code # "OK"
    THEN [codes |-> {res[n].code : n \in {m \in DOMAIN rules : res[m].code # "OK"}},
          validated |-> EmptyMap]
    ELSE [codes |-> {"OK"},
          validated |-> [n \in {m \in DOMAIN rules : res[m].out # {}} |->
                            CHOOSE v \in res[n].out : TRUE]]

(* validate_params, given the outcome res[n] of each rule n.  The rules    *)
(* are visited in the HashMap's iteration order, which is unspecified, and *)
(* the first failing rule decides the code: codes is the set of codes the  *)
(* call can return.                                                        *)
ValidatedBy(rules, params, res) ==
    IF \E key \in DOMAIN params : key \notin DOMAIN rules
    THEN [codes |-> {"INVALID_PARAMETER"}, validated |-> EmptyMap]
    ELSE IF \E n \in DOMAIN rules : res[n].code # "OK"
    THEN [codes |-> {res[n].code : n \in {m \in DOMAIN rules : res[m].code # "OK"}},
          validated |-> EmptyMap]
    ELSE [codes |-> {"OK"},
          validated |-> [n \in {m \in DOMAIN rules : res[m].out # {}} |->
                            CHOOSE v \in res[n].out : TRUE]]

validate_params(command_policy, params) ==
    ValidatedBy(command_policy.params, params,
        [n \in DOMAIN command_policy.params |->
            ValidateRule(n, command_policy.params[n], params)])

----------------------------------------------------------------------------
(* Canonical JSON.  A JSON document is [obj |-> entries], [arr |-> values] *)
(* or a scalar; the entries of an object are <<key, value>> pairs in the   *)
(* iteration order of its serde_json Map, and a key is its sequence of     *)
(* character codes.  The Map iterates in key order (BTreeMap, the default  *)
(* build) or in insertion order (feature preserve_order).                  *)

(* String::cmp: the first differing character decides, a proper prefix is *)
(* smaller                                                                 *)
LexLess(a, b) ==
    \E i \in 1..(Len(b)) :
        /\ \A j \in 1..(i - 1) : j <= Len(a) /\ a[j] = b[j]
        /\ \/ i = Len(a) + 1
           \/ i <= Len(a) /\ a[i] < b[i]

(* Map::insert *)
MapInsert(entries, key, value, preserve_order) ==
    IF \E i \in 1..Len(entries) : entries[i][1] = key
    THEN [i \in 1..Len(entries) |->
             IF entries[i][1] = key THEN <<key, value>> ELSE entries[i]]
    ELSE IF preserve_order
    THEN Append(entries, <<key, value>>)
    ELSE SelectSeq(entries, LAMBDA e : LexLess(e[1], key))
         \o <<<<key, value>>>>
         \o SelectSeq(entries, LAMBDA e : LexLess(key, e[1]))

(* faulty variant: the entries are left in the order of the map *)
sort_by_key_unsorted(entries) == entries

RECURSIVE sort_by_key(_)
(* entries.sort_by(|(a, _), (b, _)| a.cmp(b)) *)
sort_by_key(entries) ==
    IF entries = <<>> THEN <<>>
    ELSE LET least == CHOOSE i \in 1..Len(entries) :
                          \A j \in 1..Len(entries) :
                              j = i \/ LexLess(entries[i][1], entries[j][1])
                                    \/ (entries[i][1] = entries[j][1] /\ i < j)
         IN <<entries[least]>>
            \o sort_by_key([i \in 1..(Len(entries) - 1) |->
                               IF i < least THEN entries[i] ELSE entries[i + 1]])

RECURSIVE InsertAll(_, _, _)
(* for (k, v) in entries { sorted.insert(k, v) } *)
InsertAll(sorted, entries, preserve_order) ==
    IF entries = <<>> THEN sorted
    ELSE InsertAll(MapInsert(sorted, entries[1][1], entries[1][2], preserve_order),
                   Tail(entries), preserve_order)

RECURSIVE sort_json_value(_, _)
sort_json_value(value, preserve_order) ==
    IF "obj" \in DOMAIN value
    THEN LET entries == sort_by_key(value.obj)
         IN [obj |-> InsertAll(<<>>,
                        [i \in 1..Len(entries) |->
                            <<entries[i][1], sort_json_value(entries[i][2], preserve_order)>>],
                        preserve_order)]
    ELSE IF "arr" \in DOMAIN value
    THEN [arr |-> [i \in 1..Len(value.arr) |-> sort_json_value(value.arr[i], preserve_order)]]
    ELSE value

RECURSIVE to_vec(_)
RECURSIVE to_vec_list(_, _)
(* serde_json::to_vec: the compact text, token by token, in iteration      *)
(* order: a mark, the key of an entry, or a scalar                         *)
to_vec(value) ==
    IF "obj" \in DOMAIN value
    THEN <<[mark |-> "{"]>> \o to_vec_list(value.obj, TRUE) \o <<[mark |-> "}"]>>
    ELSE IF "arr" \in DOMAIN value
    THEN <<[mark |-> "["]>> \o to_vec_list(value.arr, FALSE) \o <<[mark |-> "]"]>>
    ELSE <<value>>

to_vec_list(items, keyed) ==
    IF items = <<>> THEN <<>>
    ELSE (IF keyed
          THEN <<[key |-> items[1][1]], [mark |-> ":"]>> \o to_vec(items[1][2])
          ELSE to_vec(items[1]))
         \o (IF Len(items) > 1 THEN <<[mark |-> ","]>> ELSE <<>>)
         \o to_vec_list(Tail(items), keyed)

canonical_json_bytes(value, preserve_order) ==
    to_vec(sort_json_value(value, preserve_order))

RECURSIVE to_value(_, _)
(* the document as the Map holds it once its keys were inserted in the *)
(* order of the source                                                 *)
to_value(source, preserve_order) ==
    IF "obj" \in DOMAIN source
    THEN [obj |-> InsertAll(<<>>,
                     [i \in 1..Len(source.obj) |->
                         <<source.obj[i][1], to_value(source.obj[i][2], preserve_order)>>],
                     preserve_order)]
    ELSE IF "arr" \in DOMAIN source
    THEN [arr |-> [i \in 1..Len(source.arr) |-> to_value(source.arr[i], preserve_order)]]
    ELSE source

----------------------------------------------------------------------------
(* State stores *)

WriteOutcomes == {"ok", "failed", "lost"}

(* write_json_atomic over an existing file: the new content is in place    *)
(* ("ok"); the tmp write or the first rename failed and the file is as it  *)
(* was ("failed"); the second rename failed and so did the restore of the  *)
(* backup, so the file is gone and reads as the empty map ("lost").        *)
write_json_atomic(old, new, outcome) ==
    CASE outcome = "ok" -> new
      [] outcome = "failed" -> old
      [] outcome = "lost" -> EmptyMap

Restrict(m, keys) == [k \in keys |-> m[k]]

(* faulty variant: entries are evicted one second early (< in place of <=) *)
reserve_nonce_early_eviction(nonce, ttl_seconds, t, outcome) ==
    LET ttl == Max(ttl_seconds, 1)
        kept == Restrict(nonces, {k \in DOMAIN nonces : t - nonces[k] < ttl})
    IN IF nonce \in DOMAIN kept
       THEN [code |-> "NONCE_REPLAY", nonces |-> nonces, wrote |-> FALSE]
       ELSE [code |-> IF outcome = "ok" THEN "OK" ELSE "INTERNAL_ERROR",
             nonces |-> write_json_atomic(nonces, (nonce :> t) @@ kept, outcome),
             wrote |-> TRUE]


(* faulty variant: a nonceTtlSeconds below 1 is used as it is *)
reserve_nonce_raw_ttl(nonce, ttl_seconds, t, outcome) ==
    LET ttl == ttl_seconds
        kept == Restrict(nonces, {k \in DOMAIN nonces : t - nonces[k] <= ttl})
    IN IF nonce \in DOMAIN kept
       THEN [code |-> "NONCE_REPLAY", nonces |-> nonces, wrote |-> FALSE]
       ELSE [code |-> IF outcome = "ok" THEN "OK" ELSE "INTERNAL_ERROR",
             nonces |-> write_json_atomic(nonces, (nonce :> t) @@ kept, outcome),
             wrote |-> TRUE]

reserve_nonce(nonce, ttl_seconds, t, outcome) ==
    LET ttl == Max(ttl_seconds, 1)
        kept == Restrict(nonces, {k \in DOMAIN nonces : t - nonces[k] <= ttl})
    IN IF nonce \in DOMAIN kept
       THEN [code |-> "NONCE_REPLAY", nonces |-> nonces, wrote |-> FALSE]
       ELSE [code |-> IF outcome = "ok" THEN "OK" ELSE "INTERNAL_ERROR",
             nonces |-> write_json_atomic(nonces, (nonce :> t) @@ kept, outcome),
             wrote |-> TRUE]

(* faulty variant: the lookup reads another file and never finds a record *)
load_command_record_none(command_id) == {}


load_command_record(command_id) ==
    IF command_id \in DOMAIN commands THEN {commands[command_id]} ELSE {}

(* store_command_record: store is the map it has read from commands.json *)
store_command_record(store, command_id, request_hash, response, outcome) ==
    write_json_atomic(store,
        (command_id :> [requestHash |-> request_hash, response |-> response]) @@ store,
        outcome)

(* faulty variant: the expiry of the session is not looked at *)
touch_session_no_expiry(ss, session_id, device_id, t, outcome) ==
    LET kept == Restrict(ss, {id \in DOMAIN ss : id = session_id \/ ss[id].expiresAt > t})
    IN IF session_id \notin DOMAIN kept
       THEN [code |-> "SESSION_NOT_FOUND", sessions |-> ss, wrote |-> FALSE]
       ELSE IF kept[session_id].deviceId # device_id
       THEN [code |-> "SESSION_NOT_FOUND", sessions |-> ss, wrote |-> FALSE]
       ELSE LET ttl == Max(kept[session_id].ttlSeconds, 1)
                touched == [kept EXCEPT ![session_id].lastHeartbeatAt = t,
                                        ![session_id].expiresAt = t + ttl]
            IN [code |-> IF outcome = "ok" THEN "OK" ELSE "INTERNAL_ERROR",
                sessions |-> write_json_atomic(ss, touched, outcome),
                wrote |-> TRUE]

(* faulty variant: any device may use the session *)
touch_session_any_device(ss, session_id, device_id, t, outcome) ==
    LET kept == Restrict(ss, {id \in DOMAIN ss : id = session_id \/ ss[id].expiresAt > t})
    IN IF session_id \notin DOMAIN kept
       THEN [code |-> "SESSION_NOT_FOUND", sessions |-> ss, wrote |-> FALSE]
       ELSE IF kept[session_id].expiresAt <= t
       THEN [code |-> IF outcome = "ok" THEN "SESSION_EXPIRED" ELSE "INTERNAL_ERROR",
             sessions |-> write_json_atomic(ss,
                              Restrict(kept, DOMAIN kept \ {session_id}), outcome),
             wrote |-> TRUE]
       ELSE LET ttl == Max(kept[session_id].ttlSeconds, 1)
                touched == [kept EXCEPT ![session_id].lastHeartbeatAt = t,
                                        ![session_id].expiresAt = t + ttl]
            IN [code |-> IF outcome = "ok" THEN "OK" ELSE "INTERNAL_ERROR",
                sessions |-> write_json_atomic(ss, touched, outcome),
                wrote |-> TRUE]

(* faulty variant: the touch extends the session by the TTL as stored, *)
(* counted from the previous expiry                                    *)
touch_session_from_expiry(ss, session_id, device_id, t, outcome) ==
    LET kept == Restrict(ss, {id \in DOMAIN ss : id = session_id \/ ss[id].expiresAt > t})
    IN IF session_id \notin DOMAIN kept
       THEN [code |-> "SESSION_NOT_FOUND", sessions |-> ss, wrote |-> FALSE]
       ELSE IF kept[session_id].deviceId # device_id
       THEN [code |-> "SESSION_NOT_FOUND", sessions |-> ss, wrote |-> FALSE]
       ELSE IF kept[session_id].expiresAt <= t
       THEN [code |-> IF outcome = "ok" THEN "SESSION_EXPIRED" ELSE "INTERNAL_ERROR",
             sessions |-> write_json_atomic(ss,
                              Restrict(kept, DOMAIN kept \ {session_id}), outcome),
             wrote |-> TRUE]
       ELSE LET ttl == Max(kept[session_id].ttlSeconds, 1)
                touched == [kept EXCEPT ![session_id].lastHeartbeatAt = t,
                                        ![session_id].expiresAt = @ + ttl]
            IN [code |-> IF outcome = "ok" THEN "OK" ELSE "INTERNAL_ERROR",
                sessions |-> write_json_atomic(ss, touched, outcome),
                wrote |-> TRUE]

(* faulty variant: the expiry of the session is looked at before its device *)
touch_session_expiry_first(ss, session_id, device_id, t, outcome) ==
    LET kept == Restrict(ss, {id \in DOMAIN ss : id = session_id \/ ss[id].expiresAt > t})
    IN IF session_id \notin DOMAIN kept
       THEN [code |-> "SESSION_NOT_FOUND", sessions |-> ss, wrote |-> FALSE]
       ELSE IF kept[session_id].expiresAt <= t
       THEN [code |-> IF outcome = "ok" THEN "SESSION_EXPIRED" ELSE "INTERNAL_ERROR",
             sessions |-> write_json_atomic(ss,
                              Restrict(kept, DOMAIN kept \ {session_id}), outcome),
             wrote |-> TRUE]
       ELSE IF kept[session_id].deviceId # device_id
       THEN [code |-> "SESSION_NOT_FOUND", sessions |-> ss, wrote |-> FALSE]
       ELSE LET ttl == Max(kept[session_id].ttlSeconds, 1)
                touched == [kept EXCEPT ![session_id].lastHeartbeatAt = t,
                                        ![session_id].expiresAt = t + ttl]
            IN [code |-> IF outcome = "ok" THEN "OK" ELSE "INTERNAL_ERROR",
                sessions |-> write_json_atomic(ss, touched, outcome),
                wrote |-> TRUE]

(* touch_session on the session store ss *)
touch_session(ss, session_id, device_id, t, outcome) ==
    LET kept == Restrict(ss, {id \in DOMAIN ss : id = session_id \/ ss[id].expiresAt > t})
    IN IF session_id \notin DOMAIN kept
       THEN [code |-> "SESSION_NOT_FOUND", sessions |-> ss, wrote |-> FALSE]
       ELSE IF kept[session_id].deviceId # device_id
       THEN [code |-> "SESSION_NOT_FOUND", sessions |-> ss, wrote |-> FALSE]
       ELSE IF kept[session_id].expiresAt <= t
       THEN [code |-> IF outcome = "ok" THEN "SESSION_EXPIRED" ELSE "INTERNAL_ERROR",
             sessions |-> write_json_atomic(ss,
                              Restrict(kept, DOMAIN kept \ {session_id}), outcome),
             wrote |-> TRUE]
       ELSE LET ttl == Max(kept[session_id].ttlSeconds, 1)
                touched == [kept EXCEPT ![session_id].lastHeartbeatAt = t,
                                        ![session_id].expiresAt = t + ttl]
            IN [code |-> IF outcome = "ok" THEN "OK" ELSE "INTERNAL_ERROR",
                sessions |-> write_json_atomic(ss, touched, outcome),
                wrote |-> TRUE]

----------------------------------------------------------------------------
(* Command handlers.  A handler returns its code, its result (Option), the *)
(* session store it leaves, the scripts it handed to the CommandRunner and *)
(* whether it wrote the session store.                                     *)

Handled(code, result, ss, scripts, wrote) ==
    [code |-> code, result |-> result, sessions |-> ss, scripts |-> scripts, wrote |-> wrote]

get_string(params, name) ==
    IF name \in DOMAIN params /\ "str" \in DOMAIN params[name]
    THEN {params[name].str} ELSE {}

get_bool(params, name) ==
    IF name \in DOMAIN params /\ "bool" \in DOMAIN params[name]
    THEN {params[name].bool} ELSE {}

(* the session id is the digest of device:commandId:nonce:nanos *)
SessionIdOf(payload, t) ==
    <<payload.deviceId, payload.commandId, payload.nonce, t, nanos>>

exec_begin_session(payload, policy, ss, t, outcome) ==
    LET ttl_seconds == Max(policy.security.sessionTtlSeconds, 1)
        session_id == SessionIdOf(payload, t)
        kept == Restrict(ss, {id \in DOMAIN ss : ss[id].expiresAt > t})
        record == [deviceId |-> payload.deviceId, issuedAt |-> t,
                   expiresAt |-> t + ttl_seconds, lastHeartbeatAt |-> t,
                   ttlSeconds |-> ttl_seconds]
        stored == write_json_atomic(ss, (session_id :> record) @@ kept, outcome)
    IN IF outcome # "ok" THEN Handled("INTERNAL_ERROR", {}, stored, <<>>, TRUE)
       ELSE Handled("OK",
                    {[sessionId |-> session_id, issuedAt |-> record.issuedAt,
                      expiresAt |-> record.expiresAt, ttlSeconds |-> ttl_seconds]},
                    stored, <<>>, TRUE)

exec_heartbeat(payload, params, ss, t, outcome) ==
    IF get_string(params, "sessionId") = {}
    THEN Handled("INVALID_PARAMETER", {}, ss, <<>>, FALSE)
    ELSE LET session_id == CHOOSE s \in get_string(params, "sessionId") : TRUE
             r == touch_session(ss, session_id, payload.deviceId, t, outcome)
         IN IF r.code # "OK" THEN Handled(r.code, {}, r.sessions, <<>>, r.wrote)
            ELSE Handled("OK",
                         {[sessionId |-> session_id,
                           expiresAt |-> r.sessions[session_id].expiresAt,
                           ttlSeconds |-> r.sessions[session_id].ttlSeconds]},
                         r.sessions, <<>>, TRUE)

(* faulty variant: the record is left in the store *)
exec_end_session_keeps(payload, params, ss, outcome) ==
    IF get_string(params, "sessionId") = {}
    THEN Handled("INVALID_PARAMETER", {}, ss, <<>>, FALSE)
    ELSE LET session_id == CHOOSE s \in get_string(params, "sessionId") : TRUE
         IN IF session_id \notin DOMAIN ss
            THEN Handled("SESSION_NOT_FOUND", {}, ss, <<>>, FALSE)
            ELSE IF ss[session_id].deviceId # payload.deviceId
            THEN Handled("SESSION_NOT_FOUND", {}, ss, <<>>, FALSE)
            ELSE Handled("OK", {[ended |-> TRUE, sessionId |-> session_id]},
                         ss, <<>>, TRUE)

exec_end_session(payload, params, ss, outcome) ==
    IF get_string(params, "sessionId") = {}
    THEN Handled("INVALID_PARAMETER", {}, ss, <<>>, FALSE)
    ELSE LET session_id == CHOOSE s \in get_string(params, "sessionId") : TRUE
         IN IF session_id \notin DOMAIN ss
            THEN Handled("SESSION_NOT_FOUND", {}, ss, <<>>, FALSE)
            ELSE IF ss[session_id].deviceId # payload.deviceId
            THEN Handled("SESSION_NOT_FOUND", {}, ss, <<>>, FALSE)
            ELSE LET stored == write_json_atomic(ss,
                                   Restrict(ss, DOMAIN ss \ {session_id}), outcome)
                 IN IF outcome # "ok"
                    THEN Handled("INTERNAL_ERROR", {}, stored, <<>>, TRUE)
                    ELSE Handled("OK", {[ended |-> TRUE, sessionId |-> session_id]},
                                 stored, <<>>, TRUE)

(* run_powershell_json: the runner fails or exits non-zero, or its stdout *)
(* is the result                                                          *)
run_powershell_json(script, ss, runnerOk) ==
    IF runnerOk THEN Handled("OK", {[stdout |-> script.name]}, ss, <<script>>, FALSE)
    ELSE Handled("COMMAND_EXECUTION_FAILED", {}, ss, <<script>>, FALSE)

exec_mount_vhd(params, ss, runnerOk) ==
    IF get_string(params, "path") = {}
    THEN Handled("INVALID_PARAMETER", {}, ss, <<>>, FALSE)
    ELSE LET path == CHOOSE p \in get_string(params, "path") : TRUE
             read_only == IF get_bool(params, "readOnly") = {} THEN FALSE
                          ELSE CHOOSE b \in get_bool(params, "readOnly") : TRUE
             mount_point == IF get_string(params, "mountPoint") = {} THEN Str("X:\\")
                            ELSE CHOOSE m \in get_string(params, "mountPoint") : TRUE
         IN run_powershell_json(
                [name |-> "Mount-DiskImage", imagePath |-> path,
                 mountPoint |-> mount_point,
                 access |-> IF read_only THEN "ReadOnly" ELSE "ReadWrite"],
                ss, runnerOk)

(* run_powershell_json_with_env: the runner is called with the script and *)
(* the env map                                                           *)
run_powershell_json_with_env(script, env, ss, runnerOk) ==
    IF runnerOk
    THEN Handled("OK", {[stdout |-> script.name]}, ss, <<[script |-> script, env |-> env]>>,
                 FALSE)
    ELSE Handled("COMMAND_EXECUTION_FAILED", {}, ss, <<[script |-> script, env |-> env]>>,
                 FALSE)

(* params.get(name).and_then(as_str).filter(|v| !v.trim().is_empty()) *)
NonBlankString(params, name) == {v \in get_string(params, name) : ~StrIsBlank(v)}

(* faulty variant: the secret is written into the unlock command *)
UnlockScript_inlined(mount_point, skip_if_unlocked, by_recovery, secret) ==
    [name |-> "Unlock-BitLocker", mountPoint |-> mount_point,
     skipIfUnlocked |-> skip_if_unlocked,
     protector |-> IF by_recovery THEN "-RecoveryPassword" ELSE "-Password",
     secretFrom |-> secret]

(* the script of exec_unlock_bitlocker: its holes are the quoted mount      *)
(* point, the skip flag and the unlock command, which reads the secret from *)
(* $env:CONFIGARC_UNLOCK_SECRET                                             *)
UnlockScript(mount_point, skip_if_unlocked, by_recovery, secret) ==
    [name |-> "Unlock-BitLocker", mountPoint |-> mount_point,
     skipIfUnlocked |-> skip_if_unlocked,
     protector |-> IF by_recovery THEN "-RecoveryPassword" ELSE "-Password",
     secretFrom |-> Str("$env:CONFIGARC_UNLOCK_SECRET")]

(* faulty variant: with both secrets given, the recovery password is used *)
exec_unlock_bitlocker_prefers_recovery(params, ss, runnerOk) ==
    IF get_string(params, "mountPoint") = {}
    THEN Handled("INVALID_PARAMETER", {}, ss, <<>>, FALSE)
    ELSE LET mount_point == CHOOSE m \in get_string(params, "mountPoint") : TRUE
             recovery_password == NonBlankString(params, "recoveryPassword")
             password == NonBlankString(params, "password")
             skip_if_unlocked == IF get_bool(params, "skipIfUnlocked") = {} THEN TRUE
                                 ELSE CHOOSE b \in get_bool(params, "skipIfUnlocked") : TRUE
         IN IF recovery_password = {} /\ password = {}
            THEN Handled("INVALID_PARAMETER", {}, ss, <<>>, FALSE)
            ELSE LET secret == IF recovery_password # {}
                               THEN CHOOSE v \in recovery_password : TRUE
                               ELSE CHOOSE v \in password : TRUE
                 IN run_powershell_json_with_env(
                        UnlockScript(mount_point, skip_if_unlocked,
                                     recovery_password # {}, secret),
                        [k \in {"CONFIGARC_UNLOCK_SECRET"} |-> secret],
                        ss, runnerOk)

exec_unlock_bitlocker(params, ss, runnerOk) ==
    IF get_string(params, "mountPoint") = {}
    THEN Handled("INVALID_PARAMETER", {}, ss, <<>>, FALSE)
    ELSE LET mount_point == CHOOSE m \in get_string(params, "mountPoint") : TRUE
             recovery_password == NonBlankString(params, "recoveryPassword")
             password == NonBlankString(params, "password")
             skip_if_unlocked == IF get_bool(params, "skipIfUnlocked") = {} THEN TRUE
                                 ELSE CHOOSE b \in get_bool(params, "skipIfUnlocked") : TRUE
         IN IF (recovery_password # {}) = (password # {})
            THEN Handled("INVALID_PARAMETER", {}, ss, <<>>, FALSE)
            ELSE \* the recovery password if there is one, else the password
                 LET secret == CHOOSE v \in recovery_password \cup password : TRUE
                 IN run_powershell_json_with_env(
                        UnlockScript(mount_point, skip_if_unlocked,
                                     recovery_password # {}, secret),
                        [k \in {"CONFIGARC_UNLOCK_SECRET"} |-> secret],
                        ss, runnerOk)

exec_query_disk(ss, runnerOk) ==
    run_powershell_json([name |-> "Get-Disk"], ss, runnerOk)

execute_command(payload, policy, params, ss, t, env) ==
    LET command == payload.command
        lower == ToLower(command)
    IN IF EqIgnoreAsciiCase(command, "restart_service")
       THEN Handled("COMMAND_DISABLED", {}, ss, <<>>, FALSE)
       ELSE CASE lower = "begin_session" ->
                     exec_begin_session(payload, policy, ss, t, env.handlerWrite)
              [] lower = "heartbeat" ->
                     exec_heartbeat(payload, params, ss, t, env.handlerWrite)
              [] lower = "end_session" ->
                     exec_end_session(payload, params, ss, env.handlerWrite)
              [] lower = "mount_vhd" -> exec_mount_vhd(params, ss, env.runnerOk)
              [] lower = "unlock_bitlocker" ->
                     exec_unlock_bitlocker(params, ss, env.runnerOk)
              [] lower = "query_disk" -> exec_query_disk(ss, env.runnerOk)
              [] OTHER -> Handled("POLICY_DENY", {}, ss, <<>>, FALSE)

----------------------------------------------------------------------------
(* The request pipeline *)

error_response(command_id, code, t) ==
    [schemaVersion |-> SCHEMA_VERSION, commandId |-> command_id, ok |-> FALSE,
     code |-> code, executedAt |-> t, idempotentReplay |-> FALSE, result |-> {}]

(* faulty variant: should_persist is true on every return *)
Locked_always_persist(response, persist, ns, ss, scripts, stage, used) ==
    [response |-> response, persist |-> TRUE, nonces |-> ns, sessions |-> ss,
     scripts |-> scripts, stage |-> stage, used |-> used]

(* What execute_locked hands back: the response and should_persist, and,   *)
(* for the model, the stores as the call leaves them, the scripts run, the *)
(* step at which the call returned and the fault points it passed.         *)
Locked(response, persist, ns, ss, scripts, stage, used) ==
    [response |-> response, persist |-> persist, nonces |-> ns, sessions |-> ss,
     scripts |-> scripts, stage |-> stage, used |-> used]

AllOk == [nonceWrite |-> "ok", touchWrite |-> "ok", handlerWrite |-> "ok",
          commandWrite |-> "ok", runnerOk |-> TRUE, paramCode |-> "OK"]

FindCommand(policy, name) ==
    LET idx == {i \in 1..Len(policy.allowedCommands) :
                    EqIgnoreAsciiCase(policy.allowedCommands[i].name, name)}
    IN IF idx = {} THEN {}
       ELSE {policy.allowedCommands[CHOOSE i \in idx : \A j \in idx : i <= j]}

(* the fault points a handler passed *)
HandlerUsed(h) ==
    (IF h.wrote THEN {"handler"} ELSE {}) \cup (IF Len(h.scripts) > 0 THEN {"runner"} ELSE {})

(* execute_locked from the dispatch on: h is what execute_command returned *)
after_dispatch(request, h, ns, t, used) ==
    IF h.code # "OK"
    THEN Locked(error_response(request.payload.commandId, h.code, t), TRUE, ns,
                h.sessions, h.scripts, "dispatch", used \cup HandlerUsed(h))
    ELSE Locked([schemaVersion |-> SCHEMA_VERSION,
                 commandId |-> request.payload.commandId, ok |-> TRUE,
                 code |-> "OK", executedAt |-> t, idempotentReplay |-> FALSE,
                 result |-> h.result],
                TRUE, ns, h.sessions, h.scripts, "done", used \cup HandlerUsed(h))

TouchUsed(touch) == IF touch.wrote THEN {"touch"} ELSE {}

(* execute_locked from the session touch on: touch is what touch_session *)
(* returned for a command that requires a session                        *)
after_touch(request, policy, validated, touch, ns, t, env, used) ==
    IF touch.code # "OK"
    THEN Locked(error_response(request.payload.commandId, touch.code, t), TRUE, ns,
                touch.sessions, <<>>, "session-touch", used \cup TouchUsed(touch))
    ELSE after_dispatch(request,
             execute_command(request.payload, policy, validated, touch.sessions, t, env),
             ns, t, used \cup TouchUsed(touch))

(* execute_locked once the parameters are valid *)
after_params(request, policy, command_policy, validated, ns, t, env, used) ==
    IF ~command_policy.requiresSession
    THEN after_dispatch(request,
             execute_command(request.payload, policy, validated, sessions, t, env),
             ns, t, used)
    ELSE IF \/ get_string(validated, "sessionId") = {}
            \/ \E x \in get_string(validated, "sessionId") : StrIsBlank(x)
    THEN Locked(error_response(request.payload.commandId, "SESSION_REQUIRED", t), TRUE,
                ns, sessions, <<>>, "session-touch", used)
    ELSE after_touch(request, policy, validated,
             touch_session(sessions,
                           CHOOSE x \in get_string(validated, "sessionId") : TRUE,
                           request.payload.deviceId, t, env.touchWrite),
             ns, t, env, used)

(* execute_locked from the parameter validation on: vp is what            *)
(* validate_params returned; env.paramCode says which failing rule the    *)
(* iteration met first                                                    *)
after_validation(request, policy, command_policy, vp, ns, t, env, used) ==
    IF "OK" \notin vp.codes
    THEN Locked(error_response(request.payload.commandId,
                               IF env.paramCode \in vp.codes THEN env.paramCode
                               ELSE CHOOSE c \in vp.codes : TRUE,
                               t),
                TRUE, ns, sessions, <<>>, "params", used)
    ELSE after_params(request, policy, command_policy, vp.validated, ns, t, env, used)

(* faulty variant: only the enabled flag of the policy entry is looked at *)
after_match_enabled_only(request, policy, command_policy, ns, t, env, used) ==
    IF ~command_policy.enabled
    THEN Locked(error_response(request.payload.commandId, "COMMAND_DISABLED", t), TRUE,
                ns, sessions, <<>>, "match", used)
    ELSE IF command_policy.requiresSession
            /\ "sessionId" \notin DOMAIN request.payload.params
    THEN Locked(error_response(request.payload.commandId, "SESSION_REQUIRED", t), TRUE,
                ns, sessions, <<>>, "session-gate", used)
    ELSE after_validation(request, policy, command_policy,
             validate_params(command_policy, request.payload.params), ns, t, env, used)

(* faulty variant: the parameters are validated before the session gate *)
after_match_validate_first(request, policy, command_policy, ns, t, env, used) ==
    IF ~command_policy.enabled
       \/ EqIgnoreAsciiCase(command_policy.name, "restart_service")
    THEN Locked(error_response(request.payload.commandId, "COMMAND_DISABLED", t), TRUE,
                ns, sessions, <<>>, "match", used)
    ELSE IF "OK" \notin validate_params(command_policy, request.payload.params).codes
    THEN after_validation(request, policy, command_policy,
             validate_params(command_policy, request.payload.params), ns, t, env, used)
    ELSE IF command_policy.requiresSession
            /\ "sessionId" \notin DOMAIN request.payload.params
    THEN Locked(error_response(request.payload.commandId, "SESSION_REQUIRED", t), TRUE,
                ns, sessions, <<>>, "session-gate", used)
    ELSE after_validation(request, policy, command_policy,
             validate_params(command_policy, request.payload.params), ns, t, env, used)

(* execute_locked for the matched command *)
after_match(request, policy, command_policy, ns, t, env, used) ==
    IF ~command_policy.enabled
       \/ EqIgnoreAsciiCase(command_policy.name, "restart_service")
    THEN Locked(error_response(request.payload.commandId, "COMMAND_DISABLED", t), TRUE,
                ns, sessions, <<>>, "match", used)
    ELSE IF command_policy.requiresSession
            /\ "sessionId" \notin DOMAIN request.payload.params
    THEN Locked(error_response(request.payload.commandId, "SESSION_REQUIRED", t), TRUE,
                ns, sessions, <<>>, "session-gate", used)
    ELSE after_validation(request, policy, command_policy,
             validate_params(command_policy, request.payload.params), ns, t, env, used)

(* execute_locked from the command match on (steps after the nonce) *)
execute_matched(request, policy, found, ns, t, env, used) ==
    IF found = {}
    THEN Locked(error_response(request.payload.commandId, "POLICY_DENY", t), TRUE, ns,
                sessions, <<>>, "match", used)
    ELSE after_match(request, policy, CHOOSE c \in found : TRUE, ns, t, env, used)

(* execute_locked from the nonce reservation on: reserved is what *)
(* reserve_nonce returned                                         *)
after_nonce(request, policy, reserved, t, env) ==
    IF reserved.code # "OK"
    THEN Locked(error_response(request.payload.commandId, reserved.code, t), FALSE,
                reserved.nonces, sessions, <<>>, "nonce",
                IF reserved.wrote THEN {"nonce"} ELSE {})
    ELSE execute_matched(request, policy, FindCommand(policy, request.payload.command),
                         reserved.nonces, t, env,
                         IF reserved.wrote THEN {"nonce"} ELSE {})

(* execute_locked from the idempotency lookup on: existing is the stored *)
(* record of the commandId (Option)                                      *)
after_security(request, request_hash, policy, existing, t, env) ==
    IF \E e \in existing : e.requestHash = request_hash
    THEN Locked([(CHOOSE e \in existing : TRUE).response
                    EXCEPT !.idempotentReplay = TRUE],
                FALSE, nonces, sessions, <<>>, "idempotency", {})
    ELSE IF existing # {}
    THEN Locked(error_response(request.payload.commandId, "COMMAND_ID_CONFLICT", t),
                FALSE, nonces, sessions, <<>>, "idempotency", {})
    ELSE after_nonce(request, policy,
             IF policy.security.requireNonce
             THEN reserve_nonce(request.payload.nonce, policy.security.nonceTtlSeconds,
                                t, env.nonceWrite)
             ELSE [code |-> "OK", nonces |-> nonces, wrote |-> FALSE],
             t, env)

(* faulty variant: the record of the commandId is looked up before the *)
(* security checks                                                    *)
with_policy_lookup_first(request, payload_bytes, request_hash, policy, security, t, env) ==
    IF policy.defaultAction # "deny"
    THEN Locked(error_response(request.payload.commandId, "POLICY_INVALID", t), FALSE,
                nonces, sessions, <<>>, "policy", {})
    ELSE IF \E e \in load_command_record(request.payload.commandId) :
                e.requestHash = request_hash
    THEN after_security(request, request_hash, policy,
                        load_command_record(request.payload.commandId), t, env)
    ELSE IF security # "OK"
    THEN Locked(error_response(request.payload.commandId, security, t), FALSE,
                nonces, sessions, <<>>, "security", {})
    ELSE after_security(request, request_hash, policy,
                        load_command_record(request.payload.commandId), t, env)

(* faulty variant: the command is matched against the policy before the *)
(* record of the commandId is looked up                                  *)
with_policy_match_first(request, payload_bytes, request_hash, policy, security, t, env) ==
    IF policy.defaultAction # "deny"
    THEN Locked(error_response(request.payload.commandId, "POLICY_INVALID", t), FALSE,
                nonces, sessions, <<>>, "policy", {})
    ELSE IF security # "OK"
    THEN Locked(error_response(request.payload.commandId, security, t), FALSE,
                nonces, sessions, <<>>, "security", {})
    ELSE IF FindCommand(policy, request.payload.command) = {}
    THEN Locked(error_response(request.payload.commandId, "COMMAND_NOT_ALLOWED", t), FALSE,
                nonces, sessions, <<>>, "match", {})
    ELSE after_security(request, request_hash, policy,
                        load_command_record(request.payload.commandId), t, env)

(* execute_locked with the policy loaded *)
with_policy(request, payload_bytes, request_hash, policy, security, t, env) ==
    IF policy.defaultAction # "deny"
    THEN Locked(error_response(request.payload.commandId, "POLICY_INVALID", t), FALSE,
                nonces, sessions, <<>>, "policy", {})
    ELSE IF security # "OK"
    THEN Locked(error_response(request.payload.commandId, security, t), FALSE,
                nonces, sessions, <<>>, "security", {})
    ELSE after_security(request, request_hash, policy,
                        load_command_record(request.payload.commandId), t, env)

after_schema(request, payload_bytes, request_hash, loaded, t, env) ==
    IF loaded.code # "OK"
    THEN Locked(error_response(request.payload.commandId, loaded.code, t), FALSE,
                nonces, sessions, <<>>, "policy", {})
    ELSE with_policy(request, payload_bytes, request_hash,
                     CHOOSE q \in loaded.policy : TRUE,
                     verify_request_security(request, payload_bytes,
                                             CHOOSE q \in loaded.policy : TRUE, t),
                     t, env)

execute_locked(request, payload_bytes, request_hash, t, env) ==
    IF validate_payload_basic(request.payload) # "OK"
    THEN Locked(error_response(request.payload.commandId,
                               validate_payload_basic(request.payload), t),
                FALSE, nonces, sessions, <<>>, "schema", {})
    ELSE after_schema(request, payload_bytes, request_hash, load_policy, t, env)

(* 1 when a state-file write of the call fails under env *)
FaultsOf(env) ==
    IF \E point \in {"nonceWrite", "touchWrite", "handlerWrite", "commandWrite"} :
           env[point] # "ok"
    THEN 1 ELSE 0

(* the rule failures the iteration order of validate_params can surface *)
ParamCodes(request, loaded) ==
    UNION { UNION { validate_params(c, request.payload.params).codes :
                       c \in FindCommand(q, request.payload.command) } :
               q \in loaded.policy }

(* the fault points a request can pass, given the run (probe) in which *)
(* nothing fails                                                       *)
EnvGiven(probe, codes) ==
    {e \in [nonceWrite : IF "nonce" \in probe.used THEN WriteOutcomes ELSE {"ok"},
            touchWrite : IF "touch" \in probe.used THEN WriteOutcomes ELSE {"ok"},
            handlerWrite : IF "handler" \in probe.used THEN WriteOutcomes ELSE {"ok"},
            commandWrite : IF probe.persist THEN WriteOutcomes ELSE {"ok"},
            runnerOk : IF "runner" \in probe.used THEN BOOLEAN ELSE {TRUE},
            paramCode : IF probe.stage = "params" THEN codes ELSE {"OK"}] :
       /\ faults + FaultsOf(e) <= MaxFaults
       (* a call that fails at one point does not reach the later ones *)
       /\ e.nonceWrite # "ok" =>
              /\ e.touchWrite = "ok" /\ e.handlerWrite = "ok"
              /\ e.commandWrite = "ok" /\ e.runnerOk
       /\ e.touchWrite # "ok" => e.handlerWrite = "ok" /\ e.runnerOk}

EnvFor(request) ==
    EnvGiven(execute_locked(request, signing_bytes(request.payload),
                            sha256_hex(signing_bytes(request.payload)), now, AllOk),
             ParamCodes(request, load_policy))

AuditLogEntry(response, request_hash, command) ==
    [schemaVersion |-> SCHEMA_VERSION, commandId |-> response.commandId,
     command |-> command, ok |-> response.ok, code |-> response.code,
     idempotentReplay |-> response.idempotentReplay, requestHash |-> request_hash]

(* faulty variant: the file is opened for writing, not for appending *)
write_audit_log_truncating(log, entry, written) ==
    IF written THEN <<entry>> ELSE log

(* write_audit_log: the line is appended when logs/audit.jsonl can be     *)
(* opened and written; otherwise nothing is written and the failure is    *)
(* ignored                                                                *)
write_audit_log(log, entry, written) ==
    IF written THEN Append(log, entry) ELSE log

(* Utc::now() in exec_begin_session: no two readings within a second are *)
(* the same instant                                                      *)
NanosAfter(request, out) ==
    IF out.stage \in {"dispatch", "done"} /\ ToLower(request.payload.command) = "begin_session"
    THEN nanos + 1
    ELSE nanos

(* The commandIds a handler has been run for, after a call that ended at *)
(* stage out.stage: the handler was called when the call got as far as  *)
(* the dispatch.                                                        *)
DispatchedAfter(ds, request, out) ==
    IF out.stage \in {"dispatch", "done"}
    THEN ds \cup {request.payload.commandId}
    ELSE ds

(* The record of the sessions handed out: for every session id a call has  *)
(* put into the store, its device, the expiry that begin_session or the    *)
(* latest touch gave it, whether it was ever touched, and whether it is    *)
(* live, was ended by end_session, or was reported as expired.             *)
Track(ls, before, after, request, response) ==
    LET named == get_string(request.payload.params, "sessionId")
        set == {id \in DOMAIN after :
                   \/ id \notin DOMAIN before
                   \/ after[id].expiresAt # before[id].expiresAt}
        ended == IF /\ response.ok /\ ~response.idempotentReplay
                    /\ ToLower(request.payload.command) = "end_session"
                 THEN named \cap DOMAIN ls ELSE {}
        expired == IF response.code = "SESSION_EXPIRED" /\ ~response.idempotentReplay
                   THEN named \cap DOMAIN ls ELSE {}
    IN [id \in DOMAIN ls \cup set |->
           IF id \in DOMAIN ls /\ ls[id].state = "ended" THEN ls[id]
           ELSE IF id \in ended THEN [ls[id] EXCEPT !.state = "ended"]
           ELSE IF id \in expired THEN [ls[id] EXCEPT !.state = "expired"]
           ELSE IF id \in set
           THEN [deviceId |-> after[id].deviceId, expiresAt |-> after[id].expiresAt,
                 touched |-> id \in DOMAIN before, state |-> "live"]
           ELSE ls[id]]

(* execute_request: hash, take the core lock, run the pipeline, persist the *)
(* command record when told to, append the audit line                       *)
execute_request(request) ==
    /\ last.op = "idle"
    /\ \E env \in EnvFor(request) :
       \E request_hash \in {sha256_hex(signing_bytes(request.payload))} :
       \E out \in {execute_locked(request, signing_bytes(request.payload), request_hash,
                                  now, env)} :
        /\ faults' = faults + FaultsOf(env)
        /\ nonces' = out.nonces
        /\ sessions' = out.sessions
        /\ commands' = IF out.persist
                       THEN store_command_record(commands, out.response.commandId,
                                                 request_hash, out.response,
                                                 env.commandWrite)
                       ELSE commands
        /\ last' = [op |-> "execute", request |-> request, response |-> out.response,
                    persist |-> out.persist, scripts |-> out.scripts,
                    stage |-> out.stage,
                    audit |-> <<AuditLogEntry(out.response, request_hash,
                                              request.payload.command)>>]
        /\ auditLog' = write_audit_log(auditLog,
                                       AuditLogEntry(out.response, request_hash,
                                                     request.payload.command),
                                       auditRoom > 0)
        /\ auditRoom' = Max(auditRoom - 1, 0)
        /\ nanos' = NanosAfter(request, out)
        /\ leases' = Track(leases, sessions, out.sessions, request, out.response)
        /\ dispatched' = DispatchedAfter(dispatched, request, out)
        /\ UNCHANGED <<config, verifiers, policyFile, policyTmp, policyBak, now, accepted,
                       state_lock, threads>>

----------------------------------------------------------------------------
(* The policy update pipeline *)

FsOk == [mkdir |-> TRUE, writeTmp |-> TRUE, renameToBak |-> TRUE, renameTmp |-> TRUE,
         restore |-> TRUE, removeTmp |-> TRUE, removeBak |-> TRUE]

(* replace_policy_atomically on the three files; fs says which file-system *)
(* calls succeed.  Yields the files it leaves, Ok or Err(rolled_back), and  *)
(* the file-system calls it made.                                           *)
Replaced(ok, rolled_back, file, tmp, bak, used) ==
    [ok |-> ok, rolledBack |-> rolled_back, file |-> file, tmp |-> tmp, bak |-> bak,
     used |-> used]

(* faulty variant: the tmp file is not removed when the swap fails *)
replace_policy_atomically_keeps_tmp(bytes, fs) ==
    IF ~fs.mkdir
    THEN Replaced(FALSE, FALSE, policyFile, policyTmp, policyBak, {"mkdir"})
    ELSE IF ~fs.writeTmp
    THEN Replaced(FALSE, FALSE, policyFile, policyTmp, policyBak, {"mkdir", "writeTmp"})
    ELSE IF policyFile = {}
    THEN IF fs.renameTmp
         THEN Replaced(TRUE, FALSE, {bytes}, {}, policyBak,
                       {"mkdir", "writeTmp", "renameTmp"})
         ELSE Replaced(FALSE, FALSE, policyFile, {bytes}, policyBak,
                       {"mkdir", "writeTmp", "renameTmp"})
    ELSE IF ~fs.renameToBak
    THEN Replaced(FALSE, FALSE, policyFile, {bytes}, policyBak,
                  {"mkdir", "writeTmp", "renameToBak", "removeTmp"})
    ELSE IF config.policyReplaceFailAfterBackup \/ ~fs.renameTmp
    THEN IF fs.restore
         THEN Replaced(FALSE, TRUE, policyFile, {bytes}, {},
                       {"mkdir", "writeTmp", "renameToBak", "renameTmp", "removeTmp",
                        "restore"})
         ELSE Replaced(FALSE, FALSE, {}, {bytes}, policyFile,
                       {"mkdir", "writeTmp", "renameToBak", "renameTmp", "removeTmp",
                        "restore"})
    ELSE Replaced(TRUE, FALSE, {bytes}, {}, IF fs.removeBak THEN {} ELSE policyFile,
                  {"mkdir", "writeTmp", "renameToBak", "renameTmp", "removeBak"})

replace_policy_atomically(bytes, fs) ==
    LET removedTmp == IF fs.removeTmp THEN {} ELSE {bytes}
    IN IF ~fs.mkdir
       THEN Replaced(FALSE, FALSE, policyFile, policyTmp, policyBak, {"mkdir"})
       ELSE IF ~fs.writeTmp
       THEN Replaced(FALSE, FALSE, policyFile, policyTmp, policyBak, {"mkdir", "writeTmp"})
       ELSE IF policyFile = {}
       THEN IF fs.renameTmp
            THEN Replaced(TRUE, FALSE, {bytes}, {}, policyBak,
                          {"mkdir", "writeTmp", "renameTmp"})
            ELSE Replaced(FALSE, FALSE, policyFile, {bytes}, policyBak,
                          {"mkdir", "writeTmp", "renameTmp"})
       ELSE IF ~fs.renameToBak
       THEN Replaced(FALSE, FALSE, policyFile, removedTmp, policyBak,
                     {"mkdir", "writeTmp", "renameToBak", "removeTmp"})
       ELSE IF config.policyReplaceFailAfterBackup
       THEN IF fs.restore
            THEN Replaced(FALSE, TRUE, policyFile, removedTmp, {},
                          {"mkdir", "writeTmp", "renameToBak", "removeTmp", "restore"})
            ELSE Replaced(FALSE, FALSE, {}, removedTmp, policyFile,
                          {"mkdir", "writeTmp", "renameToBak", "removeTmp", "restore"})
       ELSE IF fs.renameTmp
       THEN Replaced(TRUE, FALSE, {bytes}, {}, IF fs.removeBak THEN {} ELSE policyFile,
                     {"mkdir", "writeTmp", "renameToBak", "renameTmp", "removeBak"})
       ELSE IF fs.restore
       THEN Replaced(FALSE, TRUE, policyFile, removedTmp, {},
                     {"mkdir", "writeTmp", "renameToBak", "renameTmp", "removeTmp",
                      "restore"})
       ELSE Replaced(FALSE, FALSE, {}, removedTmp, policyFile,
                     {"mkdir", "writeTmp", "renameToBak", "renameTmp", "removeTmp",
                      "restore"})

Unchanged(code) ==
    [code |-> code, rolledBack |-> FALSE, file |-> policyFile, tmp |-> policyTmp,
     bak |-> policyBak, used |-> {}]

(* faulty variant: the restore of the backup is never reported *)
Swapped_never_rolled_back(r) ==
    [code |-> IF r.ok THEN "OK" ELSE "POLICY_UPDATE_ROLLBACK",
     rolledBack |-> FALSE, file |-> r.file, tmp |-> r.tmp, bak |-> r.bak,
     used |-> r.used]

(* what apply_policy_update_locked returns once the files are replaced *)
Swapped(r) ==
    [code |-> IF r.ok THEN "OK" ELSE "POLICY_UPDATE_ROLLBACK",
     rolledBack |-> r.rolledBack, file |-> r.file, tmp |-> r.tmp, bak |-> r.bak,
     used |-> r.used]

(* apply_policy_update_locked from the signature on: keys is the effective *)
(* key set                                                                 *)
verify_update(request, keys, fs) ==
    IF DOMAIN keys = {} THEN Unchanged("POLICY_UPDATE_INVALID_SIGNATURE")
    ELSE IF verify_with_keys(request.signature, signing_bytes(request.payload), keys, {},
                             "POLICY_UPDATE_INVALID_SIGNATURE") # "OK"
    THEN Unchanged(verify_with_keys(request.signature, signing_bytes(request.payload),
                                    keys, {}, "POLICY_UPDATE_INVALID_SIGNATURE"))
    ELSE Swapped(replace_policy_atomically(request.payload.policy, fs))

(* faulty variant: the version of the update is not compared with that of *)
(* the current policy                                                    *)
check_update_unversioned(request, existing_policy, fs) ==
    verify_update(request,
        IF \E current \in existing_policy : DOMAIN current.security.publicKeys # {}
        THEN (CHOOSE current \in existing_policy : TRUE).security.publicKeys
        ELSE config.bootstrapPublicKeys,
        fs)

(* faulty variant: the current version may be applied again *)
check_update_strict(request, existing_policy, fs) ==
    IF \E current \in existing_policy : request.payload.version < current.version
    THEN Unchanged("POLICY_UPDATE_VERSION_REJECTED")
    ELSE verify_update(request,
             IF \E current \in existing_policy : DOMAIN current.security.publicKeys # {}
             THEN (CHOOSE current \in existing_policy : TRUE).security.publicKeys
             ELSE config.bootstrapPublicKeys,
             fs)

(* faulty variant: updates are always verified against the bootstrap keys *)
check_update_bootstrap_keys(request, existing_policy, fs) ==
    IF \E current \in existing_policy : request.payload.version <= current.version
    THEN Unchanged("POLICY_UPDATE_VERSION_REJECTED")
    ELSE verify_update(request, config.bootstrapPublicKeys, fs)

(* apply_policy_update_locked from the version check on: existing_policy is *)
(* load_policy().ok()                                                       *)
check_update(request, existing_policy, fs) ==
    IF \E current \in existing_policy : request.payload.version <= current.version
    THEN Unchanged("POLICY_UPDATE_VERSION_REJECTED")
    ELSE verify_update(request,
             IF \E current \in existing_policy : DOMAIN current.security.publicKeys # {}
             THEN (CHOOSE current \in existing_policy : TRUE).security.publicKeys
             ELSE config.bootstrapPublicKeys,
             fs)

(* faulty variant: the version of the policy is not compared with that of *)
(* the envelope                                                          *)
apply_policy_update_locked_any_version(request, fs) ==
    IF request.payload.schemaVersion # SCHEMA_VERSION THEN Unchanged("INVALID_SCHEMA")
    ELSE IF request.payload.policy.defaultAction # "deny" THEN Unchanged("POLICY_INVALID")
    ELSE check_update(request, load_policy.policy, fs)

(* apply_policy_update_locked: the code ("OK" for Ok(version)), rolled_back *)
(* and the files it leaves                                                  *)
apply_policy_update_locked(request, fs) ==
    IF request.payload.schemaVersion # SCHEMA_VERSION THEN Unchanged("INVALID_SCHEMA")
    ELSE IF request.payload.policy.defaultAction # "deny" THEN Unchanged("POLICY_INVALID")
    ELSE IF request.payload.policy.version # request.payload.version
    THEN Unchanged("POLICY_INVALID")
    ELSE check_update(request, load_policy.policy, fs)

(* 1 when a file-system call of the update fails under fs *)
FsFaultsOf(fs) == IF \E call \in DOMAIN fs : ~fs[call] THEN 1 ELSE 0

(* the outcomes of the file-system calls an update can make, given the run *)
(* (probe) in which none fails: a failed rename is followed by the removal *)
(* of the tmp file and the restore of the backup                           *)
FsGiven(probe) ==
    {fs \in [mkdir : IF "mkdir" \in probe.used THEN BOOLEAN ELSE {TRUE},
             writeTmp : IF "writeTmp" \in probe.used THEN BOOLEAN ELSE {TRUE},
             renameToBak : IF "renameToBak" \in probe.used THEN BOOLEAN ELSE {TRUE},
             renameTmp : IF "renameTmp" \in probe.used THEN BOOLEAN ELSE {TRUE},
             restore : IF "renameToBak" \in probe.used THEN BOOLEAN ELSE {TRUE},
             removeTmp : IF "renameToBak" \in probe.used THEN BOOLEAN ELSE {TRUE},
             removeBak : IF "removeBak" \in probe.used THEN BOOLEAN ELSE {TRUE}] :
        faults + FsFaultsOf(fs) <= MaxFaults}

FsFor(request) == FsGiven(apply_policy_update_locked(request, FsOk))

(* apply_policy_update: take the core lock, run the update, build the *)
(* PolicyUpdateResponse                                                *)
apply_policy_update(request) ==
    /\ last.op = "idle"
    /\ \E fs \in FsFor(request) :
       \E out \in {apply_policy_update_locked(request, fs)} :
        /\ faults' = faults + FsFaultsOf(fs)
        /\ policyFile' = out.file
        /\ policyTmp' = out.tmp
        /\ policyBak' = out.bak
        /\ accepted' = IF out.code = "OK" THEN Max(accepted, request.payload.version)
                       ELSE accepted
        /\ last' = [op |-> "update", request |-> request,
                    response |-> [ok |-> out.code = "OK", code |-> out.code,
                                  version |-> request.payload.version,
                                  rolledBack |-> out.rolledBack],
                    fs |-> fs, used |-> out.used]
        /\ UNCHANGED <<config, verifiers, nonces, commands, sessions, now,
                       state_lock, threads, auditLog, auditRoom,
                   nanos, leases, dispatched>>

(* the call in progress hands its response to the caller *)
Return ==
    /\ last.op # "idle"
    /\ last' = [op |-> "idle"]
    /\ UNCHANGED <<config, verifiers, policyFile, policyTmp, policyBak,
                   nonces, commands, sessions, now, faults, accepted,
                   state_lock, threads, auditLog, auditRoom,
                   nanos, leases, dispatched>>

(* the clock advances between calls *)
Tick ==
    /\ last.op = "idle"
    /\ now < MaxTime
    /\ now' = now + 1
    /\ nanos' = 0
    /\ last' = last
    /\ UNCHANGED <<config, verifiers, policyFile, policyTmp, policyBak,
                   nonces, commands, sessions, faults, accepted,
                   state_lock, threads, auditLog, auditRoom,
                   leases, dispatched>>

----------------------------------------------------------------------------
(* Policies: the policy of the integration tests (build_policy), cut to the *)
(* commands the model has handlers for, with time-to-live values of one     *)
(* second so that expiry happens within MaxTime.                            *)

StringRule(required, default, allowValues, fixedValue) ==
    [kind |-> "string", required |-> required, default |-> default,
     allowValues |-> allowValues, fixedValue |-> fixedValue]

BoolRule(required, default, fixedValue) ==
    [kind |-> "bool", required |-> required, default |-> default,
     fixedValue |-> fixedValue]

PathRule(required, default, allowRoots, allowExtensions, fixedValue) ==
    [kind |-> "path", required |-> required, default |-> default,
     allowRoots |-> allowRoots, allowExtensions |-> allowExtensions,
     fixedValue |-> fixedValue]

PolicyCommand(name, enabled, requiresSession, params) ==
    [name |-> name, enabled |-> enabled, requiresSession |-> requiresSession,
     params |-> params]

SessionParams == [n \in {"sessionId"} |-> StringRule(TRUE, {}, {}, {})]

MountParams ==
    [n \in {"path", "readOnly", "mountPoint", "sessionId"} |->
        CASE n = "path" ->
                 PathRule(TRUE, {}, <<DirVhd>>,
                          {<<".", "v", "h", "d">>, <<".", "v", "h", "d", "x">>}, {})
          [] n = "readOnly" -> BoolRule(FALSE, {FALSE}, {})
          [] n = "mountPoint" -> StringRule(FALSE, {}, {}, {Str("X:\\")})
          [] n = "sessionId" -> StringRule(TRUE, {}, {}, {})]

UnlockParams ==
    [n \in {"mountPoint", "sessionId", "recoveryPassword", "password", "skipIfUnlocked"} |->
        CASE n = "mountPoint" -> StringRule(TRUE, {}, {Str("X:"), Str("Y:"), Str("Z:")}, {})
          [] n = "sessionId" -> StringRule(TRUE, {}, {}, {})
          [] n = "skipIfUnlocked" -> BoolRule(FALSE, {TRUE}, {})
          [] OTHER -> StringRule(FALSE, {}, {}, {})]

AllowedCommands ==
    << PolicyCommand("begin_session", TRUE, FALSE, EmptyMap),
       PolicyCommand("heartbeat", TRUE, FALSE, SessionParams),
       PolicyCommand("end_session", TRUE, FALSE, SessionParams),
       PolicyCommand("mount_vhd", TRUE, TRUE, MountParams),
       PolicyCommand("unlock_bitlocker", TRUE, TRUE, UnlockParams),
       PolicyCommand("query_disk", TRUE, FALSE, EmptyMap),
       PolicyCommand("restart_service", FALSE, FALSE, EmptyMap) >>

KeysK1 == [k \in {"k1"} |-> "K1"]
KeysK2 == [k \in {"k2"} |-> "K2"]

PolicySecurity(requireAll, publicKeys) ==
    [requireSignature |-> requireAll, signatureAlgorithm |-> "ed25519",
     requireDeviceBinding |-> requireAll, requireNonce |-> requireAll,
     nonceTtlSeconds |-> 1, maxClockSkewSeconds |-> 1, sessionTtlSeconds |-> 1,
     publicKeys |-> publicKeys]

PrivExecPolicy(version, defaultAction, security) ==
    [kind |-> "policy", schemaVersion |-> SCHEMA_VERSION, policyName |-> "test-policy",
     version |-> version, defaultAction |-> defaultAction, security |-> security,
     allowedCommands |-> AllowedCommands]

(* build_policy(version, ..) of the tests *)
TestPolicy(version) == PrivExecPolicy(version, "deny", PolicySecurity(TRUE, KeysK1))

(* the policy of the tests with every entry enabled, restart_service too *)
EnablingPolicy(version) ==
    [TestPolicy(version) EXCEPT
        !.allowedCommands = [i \in DOMAIN @ |-> [@[i] EXCEPT !.enabled = TRUE]]]

AllowPolicy(version) == PrivExecPolicy(version, "allow", PolicySecurity(TRUE, KeysK1))

CorruptFile == [kind |-> "corrupt"]

----------------------------------------------------------------------------
(* Requests *)

Payload(command_id, nonce, command, params, issued_at, expires_at) ==
    [schemaVersion |-> SCHEMA_VERSION, commandId |-> command_id, nonce |-> nonce,
     issuedAt |-> issued_at, expiresAt |-> expires_at, deviceId |-> DeviceId,
     command |-> command, params |-> params]

(* sign_request of the tests, for any key *)
SignWith(payload, algorithm, key_id, key) ==
    [payload |-> payload,
     signature |-> [algorithm |-> algorithm, keyId |-> key_id,
                    signature |-> [key |-> key, over |-> signing_bytes(payload)]]]

Sign(payload) == SignWith(payload, "ed25519", "k1", "K1")

BogusSession == <<DeviceId, "c0", "n0", 0, 0>>

MountParam(sid, path) ==
    [n \in {"sessionId", "path"} |-> IF n = "path" THEN [str |-> path] ELSE [str |-> sid]]


(* what a front end that knows the live sessions can name *)
SessionInputs == DOMAIN sessions \cup {BogusSession}

Never == MaxTime + 1

(* the ways a request can be wrong before the command match *)
Defective(payload) ==
    { (* signed for one command, submitted for another *)
      [Sign(payload) EXCEPT !.payload.command = "format_disk"],
      (* signed by a key that is not in the key set *)
      SignWith(payload, "ed25519", "k1", "K2"),
      SignWith(payload, "ed25519", "k9", "K1"),
      SignWith(payload, "ed25519", "k1", "not-base64"),
      (* algorithm other than the policy's; algorithm in another letter case *)
      SignWith(payload, "rsa", "k1", "K1"),
      SignWith(payload, "ED25519", "k1", "K1"),
      (* another device, correctly signed *)
      Sign([payload EXCEPT !.deviceId = "other-device"]),
      (* schema *)
      Sign([payload EXCEPT !.schemaVersion = 2]),
      Sign([payload EXCEPT !.commandId = " "]),
      Sign([payload EXCEPT !.commandId = "c-129-chars"]),
      (* validity window: inverted, not yet valid *)
      Sign([payload EXCEPT !.issuedAt = 2, !.expiresAt = 1]),
      Sign([payload EXCEPT !.issuedAt = Never + 1, !.expiresAt = Never + 1]) }

(* command and params of the requests that the policy step decides *)
PolicyCalls ==
    { <<"format_disk", EmptyMap>>,
      <<"Restart_Service", EmptyMap>>,
      <<"restart_service", EmptyMap>>,
      <<"mount_vhd", EmptyMap>>,
      <<"mount_vhd", MountParam(BogusSession, FileVhdA)>>,
      <<"mount_vhd", MountParam(BogusSession, FileSibling)>> }

PipelineRequests ==
    { Sign(Payload("c1", "n1", "query_disk", EmptyMap, 0, Never)),
      Sign(Payload("c1", "n1", "query_disk", EmptyMap, 0, 0)),
      Sign(Payload("c1", "n2", "query_disk", EmptyMap, 0, Never)),
      Sign(Payload("c2", "n1", "QUERY_DISK", EmptyMap, 0, Never)) }
    \cup { Sign(Payload("c2", "n2", call[1], call[2], 0, Never)) : call \in PolicyCalls }
    \cup Defective(Payload("c1", "n1", "query_disk", EmptyMap, 0, Never))

----------------------------------------------------------------------------
(* Specification of the pipeline: one core object as the integration tests *)
(* set it up (bootstrap key k1; policy version 1 on disk, or no usable      *)
(* policy), receiving requests one after the other while the clock runs.    *)

TestConfig(fail_policy_swap) ==
    [bootstrapPublicKeys |-> KeysK1, policyReplaceFailAfterBackup |-> fail_policy_swap]

(* the files and stores of a fresh root directory *)
InitStores(configs, files) ==
    /\ config \in configs
    /\ verifiers = {"ed25519"}
    /\ policyFile \in files
    /\ policyTmp = {}
    /\ policyBak = {}
    /\ nonces = EmptyMap
    /\ commands = EmptyMap
    /\ sessions = EmptyMap
    /\ now = 0
    /\ faults = 0
    /\ accepted = 0
    /\ last = [op |-> "idle"]
    /\ auditLog = <<>>
    /\ nanos = 0
    /\ leases = EmptyMap
    /\ dispatched = {}

(* one core, called by one caller at a time: its lock is free between calls *)
InitWith(configs, files) ==
    /\ InitStores(configs, files)
    /\ state_lock = [core \in {1} |-> {}]
    /\ threads = EmptyMap
    /\ auditRoom = 0

Init ==
    InitWith({TestConfig(FALSE)},
             {{TestPolicy(1)}, {}, {CorruptFile}, {AllowPolicy(1)}, {EnablingPolicy(1)}})

Execute == \E request \in PipelineRequests : execute_request(request)

Next == Execute \/ Return \/ Tick

Spec == Init /\ [][Next]_vars

----------------------------------------------------------------------------
(* Specification of the sessions: two devices under a policy that asks for *)
(* signatures only, with sessions that live for two seconds; they begin,   *)
(* touch and end sessions and mount images under them.                     *)

SessionPolicy(version) ==
    [TestPolicy(version) EXCEPT !.security.requireDeviceBinding = FALSE,
                                !.security.requireNonce = FALSE,
                                !.security.sessionTtlSeconds = 2]

From(device_id, payload) == Sign([payload EXCEPT !.deviceId = device_id])

SessionRequests ==
    { From(DeviceId, Payload("b1", "n1", "begin_session", EmptyMap, 0, Never)),
      From("device-2", Payload("m2", "n1", "mount_vhd", EmptyMap, 0, Never)),
      From("device-2", Payload("m2", "n1", "mount_vhd", MountParam(<<" ">>, FileVhdA),
                               0, Never)) }
    \cup { From(DeviceId, Payload("m1", "n1", "mount_vhd", MountParam(sid, FileVhdA),
                                  0, Never)) : sid \in SessionInputs }
    \cup { From("device-2", Payload("m2", "n1", "mount_vhd", MountParam(sid, FileVhdA),
                                    0, Never)) : sid \in DOMAIN sessions }
    \cup { From(DeviceId, Payload("m1", "n1", "mount_vhd", MountParam(sid, FileSibling),
                                  0, Never)) : sid \in DOMAIN sessions }

InitSession == InitWith({TestConfig(FALSE)}, {{SessionPolicy(1)}})

SessionExecute == \E request \in SessionRequests : execute_request(request)

NextSession == SessionExecute \/ Return \/ Tick

SpecSession == InitSession /\ [][NextSession]_vars

----------------------------------------------------------------------------
(* Specification of the session lifetime: a core whose policy lets sessions *)
(* live for one second begins sessions, extends them by heartbeats and by   *)
(* mounts, and ends them, for the sessions handed out so far, while the     *)
(* clock runs; the state files can always be written.                       *)

LifetimePolicy == [SessionPolicy(1) EXCEPT !.security.sessionTtlSeconds = 1]

SessionParam(sid) == [n \in {"sessionId"} |-> [str |-> sid]]

(* the heartbeat sent after the first second is a new command *)
HeartbeatId == IF now = 0 THEN "h0" ELSE "h1"

(* and so is the end_session sent after the second *)
EndId == IF now <= 1 THEN "e1" ELSE "e2"

LifetimeRequests ==
    { From(DeviceId, Payload(id, "n1", "begin_session", EmptyMap, 0, Never)) :
          id \in {"b1", "b2"} }
    \cup { From(DeviceId, Payload(HeartbeatId, "n1", "heartbeat", SessionParam(sid),
                                  0, Never)) : sid \in DOMAIN leases }
    \cup { From(DeviceId, Payload(EndId, "n1", "end_session", SessionParam(sid), 0, Never)) :
               sid \in DOMAIN leases }
    \cup { From(DeviceId, Payload("m1", "n1", "mount_vhd", MountParam(sid, FileVhdA),
                                  0, Never)) : sid \in DOMAIN leases }

(* a core whose state files can always be written *)
InitQuiet(policy) ==
    /\ config = TestConfig(FALSE)
    /\ verifiers = {"ed25519"}
    /\ policyFile = {policy}
    /\ policyTmp = {} /\ policyBak = {}
    /\ nonces = EmptyMap /\ commands = EmptyMap /\ sessions = EmptyMap
    /\ now = 0 /\ nanos = 0
    /\ faults = MaxFaults
    /\ accepted = 0
    /\ last = [op |-> "idle"]
    /\ auditLog = <<>> /\ auditRoom = 0
    /\ leases = EmptyMap
    /\ dispatched = {}
    /\ state_lock = [core \in {1} |-> {}]
    /\ threads = EmptyMap

InitLifetime == InitQuiet(LifetimePolicy)

LifetimeExecute == \E request \in LifetimeRequests : execute_request(request)

NextLifetime == LifetimeExecute \/ Return \/ Tick

SpecLifetime == InitLifetime /\ [][NextLifetime]_vars

----------------------------------------------------------------------------
(* Specification of the BitLocker unlock: a core begins a session and is    *)
(* asked to unlock a volume under it, with a recovery password, a password, *)
(* both or neither, each of them any of a few values or blank, while the    *)
(* clock runs and the runner may fail.                                      *)

SecretNames == {"recoveryPassword", "password"}

SecretValues == {Str("111111-222222"), Str("hunter2"), <<" ">>}

UnlockParam(sid, given) ==
    [n \in {"sessionId", "mountPoint"} \cup DOMAIN given |->
        CASE n = "sessionId" -> [str |-> sid]
          [] n = "mountPoint" -> [str |-> Str("X:")]
          [] OTHER -> [str |-> given[n]]]

UnlockRequests ==
    { From(DeviceId, Payload("b1", "n1", "begin_session", EmptyMap, 0, Never)) }
    \cup { From(DeviceId, Payload("u1", "n1", "unlock_bitlocker", UnlockParam(sid, given),
                                  0, Never)) :
               sid \in DOMAIN sessions,
               given \in UNION {[names -> SecretValues] : names \in SUBSET SecretNames} }

InitUnlock == InitQuiet(SessionPolicy(1))

UnlockExecute == \E request \in UnlockRequests : execute_request(request)

NextUnlock == UnlockExecute \/ Return \/ Tick

SpecUnlock == InitUnlock /\ [][NextUnlock]_vars

----------------------------------------------------------------------------
(* Specification of the canonical bytes: documents of up to three levels,  *)
(* with every insertion order of their keys, are canonicalised by a build  *)
(* with either kind of Map.                                                *)

JsonKeys == {<<1>>, <<1, 2>>, <<2>>}

(* the objects with keys drawn from keys and values from values, by the *)
(* order in which the keys are inserted                                 *)
ObjectsOf(keys, values) ==
    UNION { { [obj |-> [i \in 1..n |-> <<inserted[i], vals[i]>>]] :
                inserted \in {k \in [1..n -> keys] :
                                 \A i, j \in 1..n : i # j => k[i] # k[j]},
                vals \in [1..n -> values] } :
            n \in 0..MaxKeys }

NestedObjects == ObjectsOf({<<1>>, <<1, 2>>}, {[int |-> 1]})

JsonSources ==
    ObjectsOf(JsonKeys,
              {[int |-> 1]}
              \cup NestedObjects
              \cup {[arr |-> <<[int |-> 2], nested>>] :
                       nested \in {o \in NestedObjects : Len(o.obj) = 2}})

InitCanonical == InitQuiet(TestPolicy(1))

Canonicalize ==
    /\ last.op = "idle"
    /\ \E source \in JsonSources, preserve_order \in BOOLEAN :
           last' = [op |-> "canonical", source |-> source,
                    preserve_order |-> preserve_order,
                    sorted |-> sort_json_value(to_value(source, preserve_order),
                                               preserve_order),
                    bytes |-> canonical_json_bytes(to_value(source, preserve_order),
                                                   preserve_order)]
    /\ UNCHANGED <<config, verifiers, policyFile, policyTmp, policyBak, nonces, commands,
                   sessions, now, faults, accepted, state_lock, threads, auditLog,
                   auditRoom, nanos, leases, dispatched>>

NextCanonical == Canonicalize \/ Return

SpecCanonical == InitCanonical /\ [][NextCanonical]_vars

----------------------------------------------------------------------------
(* Specification of the path rule: one path parameter is validated against *)
(* rules with and without roots and extensions, for files inside the root, *)
(* beside it, reached through a parent segment, missing, and relative.     *)

DirMissing == <<"C", ":", "\\", "m">>
DirSibling == <<"C", ":", "\\", "v", "2">>
FileMissing == <<"C", ":", "\\", "v", "\\", "m", ".", "v", "h", "d">>
FileRelative == <<"a", ".", "v", "h", "d">>

PathRoots ==
    {<<>>, <<DirVhd>>, <<DirSibling, DirVhd>>, <<DirMissing>>,
     <<DirMissing, DirVhd>>, <<DirVhd, DirMissing>>}

PathExtensions ==
    {{}, {<<".", "v", "h", "d">>, <<".", "v", "h", "d", "x">>}, {<<".", "T", "X", "T">>}}

RawPaths ==
    {FileVhdA, FileSibling, FileTxt, FileDotDot, DirVhd, FileMissing, FileRelative}

InitPath == InitQuiet(TestPolicy(1))

ValidatePathParam ==
    /\ last.op = "idle"
    /\ \E roots \in PathRoots, extensions \in PathExtensions, raw \in RawPaths :
           last' = [op |-> "path", raw |-> raw,
                    rule |-> PathRule(TRUE, {}, roots, extensions, {}),
                    canonical |-> canonicalize_secure_path(raw),
                    result |-> validate_params(
                        [params |-> [n \in {"path"} |->
                                        PathRule(TRUE, {}, roots, extensions, {})]],
                        [n \in {"path"} |-> [str |-> raw]])]
    /\ UNCHANGED <<config, verifiers, policyFile, policyTmp, policyBak, nonces, commands,
                   sessions, now, faults, accepted, state_lock, threads, auditLog,
                   auditRoom, nanos, leases, dispatched>>

NextPath == ValidatePathParam \/ Return

SpecPath == InitPath /\ [][NextPath]_vars

----------------------------------------------------------------------------
(* Specification of the parameter rules: validate_params is applied to a  *)
(* rule map with the rule "p" of every kind, required or not, with and    *)
(* without a default and a fixed value, and to params that supply "p" or  *)
(* not, with a value of the right or the wrong type, empty, equal to the  *)
(* fixed value or not, and with or without a key that has no rule.        *)

IntRule(required, default, min, max, fixedValue) ==
    [kind |-> "int", required |-> required, default |-> default,
     min |-> min, max |-> max, fixedValue |-> fixedValue]

ParamRules ==
    { StringRule(required, default, allow, fixed) :
          required \in BOOLEAN, default \in {{}, {<<>>}, {Str("X:")}, {Str("Y:")}},
          allow \in {{}, {Str("Y:")}}, fixed \in {{}, {Str("X:")}} }
    \cup { BoolRule(required, default, fixed) :
               required \in BOOLEAN, default \in {{}, {TRUE}, {FALSE}},
               fixed \in {{}, {TRUE}} }
    \cup { IntRule(required, default, {}, {}, fixed) :
               required \in BOOLEAN, default \in {{}, {0}, {5}}, fixed \in {{}, {5}} }
    \cup { PathRule(required, default, <<>>, {}, fixed) :
               required \in BOOLEAN, default \in {{}, {FileVhdA}, {FileTxt}},
               fixed \in {{}, {FileVhdA}, {FileDotDot}} }

(* the rule maps: "p" alone, or with an optional bool "q" beside it *)
RuleMaps ==
    { [n \in {"p"} |-> rule] : rule \in ParamRules }
    \cup { [n \in {"p", "q"} |-> IF n = "p" THEN rule ELSE BoolRule(FALSE, {}, {})] :
               rule \in ParamRules }

SuppliedValues ==
    { [str |-> v] : v \in {<<>>, Str("X:"), Str("Y:"), FileVhdA, FileTxt, FileDotDot} }
    \cup { [bool |-> b] : b \in BOOLEAN }
    \cup { [int |-> i] : i \in {0, 5} }

(* the params: "p" supplied or not, beside "q" and a key without a rule *)
SuppliedParams ==
    { [n \in others |-> [bool |-> TRUE]] : others \in SUBSET {"q", "bogus"} }
    \cup { [n \in {"p"} \cup others |-> IF n = "p" THEN v ELSE [bool |-> TRUE]] :
               v \in SuppliedValues, others \in SUBSET {"q", "bogus"} }

InitRules == InitQuiet(TestPolicy(1))

ValidateRules ==
    /\ last.op = "idle"
    /\ \E rules \in RuleMaps, params \in SuppliedParams :
           last' = [op |-> "validate", rules |-> rules, params |-> params,
                    result |-> validate_params([params |-> rules], params)]
    /\ UNCHANGED <<config, verifiers, policyFile, policyTmp, policyBak, nonces, commands,
                   sessions, now, faults, accepted, state_lock, threads, auditLog,
                   auditRoom, nanos, leases, dispatched>>

NextRules == ValidateRules \/ Return

SpecRules == InitRules /\ [][NextRules]_vars

----------------------------------------------------------------------------
(* Specification of the security checks: requests that are wrong in several *)
(* ways at once (signed by a foreign key or altered after signing, from     *)
(* another device, with an expired, inverted or future validity window)     *)
(* reach a core whose policy asks for everything, for no device binding, or *)
(* for no signature, while the clock runs.                                  *)

SecurityPolicies ==
    { TestPolicy(1),
      [TestPolicy(1) EXCEPT !.security.requireDeviceBinding = FALSE],
      [TestPolicy(1) EXCEPT !.security.requireSignature = FALSE] }

(* issuedAt and expiresAt: valid throughout, expired from second 2 on, *)
(* inverted, not yet valid                                             *)
ValidityWindows == {<<0, Never>>, <<0, 0>>, <<2, 1>>, <<Never + 1, Never + 1>>}

SecurityRequests ==
    { SignWith([Payload("c1", "n1", "query_disk", EmptyMap, window[1], window[2])
                   EXCEPT !.deviceId = device],
               "ed25519", "k1", key) :
          device \in {DeviceId, "other-device"}, key \in {"K1", "K2"},
          window \in ValidityWindows }
    \cup { [Sign(Payload("c1", "n1", "query_disk", EmptyMap, window[1], window[2]))
               EXCEPT !.payload.deviceId = "other-device"] :
               window \in ValidityWindows }

InitSecurity == \E policy \in SecurityPolicies : InitQuiet(policy)

SecurityExecute == \E request \in SecurityRequests : execute_request(request)

NextSecurity == SecurityExecute \/ Return \/ Tick

SpecSecurity == InitSecurity /\ [][NextSecurity]_vars

----------------------------------------------------------------------------
(* Specification of the signature step: requests signed well, by a foreign *)
(* key, under an unknown keyId, with an undecodable signature, under       *)
(* another algorithm or altered after signing reach a core whose policy    *)
(* holds key k1, no key (with and without a bootstrap key), an undecodable *)
(* key, or names an algorithm other than the one of the requests.          *)

NoKeysConfig == [TestConfig(FALSE) EXCEPT !.bootstrapPublicKeys = EmptyMap]

SignaturePolicies ==
    { TestPolicy(1),
      [TestPolicy(1) EXCEPT !.security.signatureAlgorithm = "rsa"],
      [TestPolicy(1) EXCEPT !.security.publicKeys = EmptyMap],
      [TestPolicy(1) EXCEPT !.security.publicKeys = [k \in {"k1"} |-> "not-base64"]] }

SignatureRequests ==
    { SignWith(Payload("c1", "n1", "query_disk", EmptyMap, 0, Never),
               algorithm, key_id, key) :
          algorithm \in {"ed25519", "ED25519", "rsa"}, key_id \in {"k1", "k9"},
          key \in {"K1", "K2", "not-base64"} }
    \cup { [Sign(Payload("c1", "n1", "query_disk", EmptyMap, 0, Never))
               EXCEPT !.payload.nonce = "n2"] }

InitSignature ==
    InitWith({TestConfig(FALSE), NoKeysConfig}, {{policy} : policy \in SignaturePolicies})

SignatureExecute == \E request \in SignatureRequests : execute_request(request)

NextSignature == SignatureExecute \/ Return \/ Tick

SpecSignature == InitSignature /\ [][NextSignature]_vars

----------------------------------------------------------------------------
(* Specification of the freshness check: well signed requests with validity *)
(* windows of one instant and of the whole run, and one signed by a foreign *)
(* key, reach a core whose policy allows a clock skew of one second, of     *)
(* none, or names a negative one, while the clock runs.                     *)

FreshPolicies ==
    { [TestPolicy(1) EXCEPT !.security.maxClockSkewSeconds = skew] : skew \in {-1, 0, 1} }

FreshRequests ==
    { Sign(Payload("c1", "n1", "query_disk", EmptyMap, at, at)) : at \in 0..MaxTime }
    \cup { Sign(Payload("c1", "n1", "query_disk", EmptyMap, 0, MaxTime)),
           SignWith(Payload("c1", "n1", "query_disk", EmptyMap, 1, 1),
                    "ed25519", "k1", "K2") }

InitFresh == \E policy \in FreshPolicies : InitQuiet(policy)

FreshExecute == \E request \in FreshRequests : execute_request(request)

NextFresh == FreshExecute \/ Return \/ Tick

SpecFresh == InitFresh /\ [][NextFresh]_vars

----------------------------------------------------------------------------
(* Specification of the nonce store: three commands, two of them with the  *)
(* same nonce, reach a core whose policy keeps nonces for one second or    *)
(* names a TTL of zero or below, while the clock runs and a write of a     *)
(* state file may fail.                                                    *)

NoncePolicies ==
    { [TestPolicy(1) EXCEPT !.security.nonceTtlSeconds = ttl] : ttl \in {-1, 0, 1} }

NonceRequests ==
    { Sign(Payload("c1", "n1", "query_disk", EmptyMap, 0, Never)),
      Sign(Payload("c2", "n1", "query_disk", EmptyMap, 0, Never)),
      Sign(Payload("c3", "n2", "query_disk", EmptyMap, 0, Never)) }

InitNonce == InitWith({TestConfig(FALSE)}, {{policy} : policy \in NoncePolicies})

NonceExecute == \E request \in NonceRequests : execute_request(request)

NextNonce == NonceExecute \/ Return \/ Tick

SpecNonce == InitNonce /\ [][NextNonce]_vars

----------------------------------------------------------------------------
(* Specification of the session gate: mount_vhd and unlock_bitlocker, which *)
(* require a session, are called without a sessionId and with parameters    *)
(* that are missing, undeclared, ill-typed or not allowed, and with a       *)
(* sessionId for comparison, on a core where a session is begun, all       *)
(* within one second.                                                       *)

Param(name, value) == [n \in {name} |-> value]

GateCalls ==
    { <<"b1", "begin_session", EmptyMap>>,
      <<"g1", "mount_vhd", EmptyMap>>,
      <<"g2", "mount_vhd", Param("bogus", [str |-> Str("x")])>>,
      <<"g3", "mount_vhd", Param("readOnly", [str |-> Str("yes")])>>,
      <<"g4", "mount_vhd", Param("path", [int |-> 1])>>,
      <<"g5", "unlock_bitlocker", Param("mountPoint", [str |-> Str("Q:")])>>,
      <<"g6", "mount_vhd", Param("sessionId", [int |-> 1])>> }
    \cup { <<"g7", "mount_vhd", MountParam(sid, FileVhdA) @@ Param("bogus", [str |-> Str("x")])>> :
               sid \in DOMAIN sessions }
    \cup { <<"g8", "mount_vhd", MountParam(sid, FileVhdA)>> : sid \in DOMAIN sessions }

GateRequests ==
    { Sign(Payload(call[1], "n1", call[2], call[3], 0, Never)) : call \in GateCalls }

InitGate == InitQuiet(SessionPolicy(1))

GateExecute == \E request \in GateRequests : execute_request(request)

NextGate == GateExecute \/ Return

SpecGate == InitGate /\ [][NextGate]_vars

----------------------------------------------------------------------------
(* Specification of the session records: one session is begun under a      *)
(* policy whose session TTL is two seconds, zero or negative, extended by  *)
(* heartbeats and by a mount and ended, while the clock runs; the state    *)
(* files can always be written.                                            *)

RecordPolicies ==
    { [SessionPolicy(1) EXCEPT !.security.sessionTtlSeconds = ttl] : ttl \in {-1, 0, 2} }

RecordRequests ==
    { From(DeviceId, Payload("b1", "n1", "begin_session", EmptyMap, 0, Never)) }
    \cup { From(DeviceId, Payload(HeartbeatId, "n1", "heartbeat", SessionParam(sid),
                                  0, Never)) : sid \in DOMAIN leases }
    \cup { From(DeviceId, Payload("e1", "n1", "end_session", SessionParam(sid), 0, Never)) :
               sid \in DOMAIN leases }
    \cup { From(DeviceId, Payload("m1", "n1", "mount_vhd", MountParam(sid, FileVhdA),
                                  0, Never)) : sid \in DOMAIN leases }

InitRecord == \E policy \in RecordPolicies : InitQuiet(policy)

RecordExecute == \E request \in RecordRequests : execute_request(request)

NextRecord == RecordExecute \/ Return \/ Tick

SpecRecord == InitRecord /\ [][NextRecord]_vars

----------------------------------------------------------------------------
(* Specification of the foreign device: a session of device-1 that lives   *)
(* for one second receives a heartbeat, a mount and an end_session from    *)
(* device-2, and a heartbeat from its own device, while the clock runs;    *)
(* the state files can always be written.                                  *)

ForeignRequests ==
    { From(DeviceId, Payload("b1", "n1", "begin_session", EmptyMap, 0, Never)) }
    \cup { From(DeviceId, Payload("h1", "n1", "heartbeat", SessionParam(sid), 0, Never)) :
               sid \in DOMAIN leases }
    \cup { From("device-2", Payload("xh", "n1", "heartbeat", SessionParam(sid), 0, Never)) :
               sid \in DOMAIN leases }
    \cup { From("device-2", Payload("xe", "n1", "end_session", SessionParam(sid), 0, Never)) :
               sid \in DOMAIN leases }
    \cup { From("device-2", Payload("xm", "n1", "mount_vhd", MountParam(sid, FileVhdA),
                                    0, Never)) : sid \in DOMAIN leases }

InitForeign == InitQuiet(LifetimePolicy)

ForeignExecute == \E request \in ForeignRequests : execute_request(request)

NextForeign == ForeignExecute \/ Return \/ Tick

SpecForeign == InitForeign /\ [][NextForeign]_vars

----------------------------------------------------------------------------
(* Specification of the policy updates: a core with or without the fault   *)
(* injection flag, starting with policy version 1 or with no policy,       *)
(* receives updates of every version, well-formed or not, while the file   *)
(* system may fail; one command is executed in between.                    *)

UpdatePayload(version, policy) ==
    [schemaVersion |-> SCHEMA_VERSION, version |-> version, issuedAt |-> 0,
     policy |-> policy]

Versions == 1..MaxVersion

UpdateRequests ==
    { Sign(UpdatePayload(v, TestPolicy(v))) : v \in Versions }
    \cup { (* not well-formed: schema, defaultAction, version of the policy *)
           Sign([UpdatePayload(1, TestPolicy(1)) EXCEPT !.schemaVersion = 2]),
           Sign(UpdatePayload(2, AllowPolicy(2))),
           Sign(UpdatePayload(1, TestPolicy(2))),
           Sign(UpdatePayload(3, TestPolicy(2))),
           (* not well-formed in two ways *)
           Sign([UpdatePayload(2, AllowPolicy(2)) EXCEPT !.schemaVersion = 2]),
           (* not signed by a key of the policy; algorithm without a verifier *)
           SignWith(UpdatePayload(2, TestPolicy(2)), "ed25519", "k1", "K2"),
           SignWith(UpdatePayload(2, TestPolicy(2)), "rsa", "k1", "K1") }

InitPolicy == InitWith({TestConfig(FALSE), TestConfig(TRUE)}, {{TestPolicy(1)}, {}})

Update == \E request \in UpdateRequests : apply_policy_update(request)

PolicyExecute ==
    \E request \in {Sign(Payload("c1", "n1", "query_disk", EmptyMap, 0, Never))} :
        execute_request(request)

NextPolicy == Update \/ PolicyExecute \/ Return

SpecPolicy == InitPolicy /\ [][NextPolicy]_vars

----------------------------------------------------------------------------
(* Specification of the key replacement: a core with bootstrap key K1,    *)
(* starting with policy version 1 (key K1) or with no policy, receives    *)
(* updates that install the key K2 (version 2), no key (version 3) or K1, *)
(* each signed with K1 or with K2, and executes requests signed with K1   *)
(* or K2 in between, while the file system may fail.                      *)

KeysOfVersion(version) ==
    CASE version % 3 = 1 -> KeysK1
      [] version % 3 = 2 -> KeysK2
      [] OTHER -> EmptyMap

KeyPolicy(version) ==
    [TestPolicy(version) EXCEPT !.security.publicKeys = KeysOfVersion(version)]

Signers == {<<"k1", "K1">>, <<"k2", "K2">>}

KeyUpdates ==
    { SignWith(UpdatePayload(v, KeyPolicy(v)), "ed25519", signer[1], signer[2]) :
          v \in Versions, signer \in Signers }

KeyRequests ==
    { SignWith(Payload("c1", "n1", "query_disk", EmptyMap, 0, Never),
               "ed25519", signer[1], signer[2]) : signer \in Signers }

InitKeys == InitWith({TestConfig(FALSE), TestConfig(TRUE)}, {{KeyPolicy(1)}, {}})

KeyUpdate == \E request \in KeyUpdates : apply_policy_update(request)

KeyExecute == \E request \in KeyRequests : execute_request(request)

NextKeys == KeyUpdate \/ KeyExecute \/ Return

SpecKeys == InitKeys /\ [][NextKeys]_vars

----------------------------------------------------------------------------
(* Specification of the audit log: a core whose logs/audit.jsonl can take  *)
(* MaxLog lines executes requests that succeed, replay and fail at several *)
(* steps, and receives policy updates in between, one of which installs a  *)
(* policy that allows no command.                                          *)

StrictPolicy(version) == [TestPolicy(version) EXCEPT !.allowedCommands = <<>>]

AuditRequests ==
    { Sign(Payload("c1", "n1", "query_disk", EmptyMap, 0, Never)),
      SignWith(Payload("c2", "n2", "query_disk", EmptyMap, 0, Never), "ed25519", "k1", "K2"),
      Sign([Payload("c3", "n3", "query_disk", EmptyMap, 0, Never) EXCEPT !.schemaVersion = 2]) }

AuditUpdates ==
    { Sign(UpdatePayload(2, StrictPolicy(2))),
      Sign(UpdatePayload(1, TestPolicy(1))),
      SignWith(UpdatePayload(2, TestPolicy(2)), "ed25519", "k1", "K2") }

InitAudit ==
    /\ InitStores({TestConfig(FALSE)}, {{TestPolicy(1)}})
    /\ state_lock = [core \in {1} |-> {}]
    /\ threads = EmptyMap
    /\ auditRoom = MaxLog

AuditExecute == \E request \in AuditRequests : execute_request(request)

AuditUpdate == \E request \in AuditUpdates : apply_policy_update(request)

NextAudit == AuditExecute \/ AuditUpdate \/ Return

SpecAudit == InitAudit /\ [][NextAudit]_vars

----------------------------------------------------------------------------
(* Specification of concurrent calls: each thread builds a core on the     *)
(* same root directory, as the launcher's commands do for every call, or   *)
(* shares the core of another thread, and executes one request.  A step    *)
(* is a stretch of execute_request that makes at most one access to        *)
(* commands.json after the pipeline has run; the file system never fails.  *)

Threads == 1..MaxThreads

Cores == 1..MaxCores

ConcurrentRequests ==
    { Sign(Payload("c1", "n1", "query_disk", EmptyMap, 0, Never)),
      Sign(Payload("c2", "n2", "query_disk", EmptyMap, 0, Never)),
      Sign(Payload("c2", "n1", "query_disk", EmptyMap, 0, Never)) }

Thread(pc, core, request, out, store) ==
    [pc |-> pc, core |-> core, request |-> request, out |-> out, store |-> store]

(* build_privexec_core and the call of execute_request: the thread has *)
(* hashed its request and waits for the lock of its core               *)
Invoke(thread, request) ==
    /\ threads[thread].pc = "idle"
    /\ threads' = [threads EXCEPT ![thread].pc = "waiting", ![thread].request = {request}]
    /\ UNCHANGED <<config, verifiers, policyFile, policyTmp, policyBak, nonces, commands,
                   sessions, now, faults, accepted, state_lock, last, auditLog, auditRoom,
                   nanos, leases, dispatched>>

(* self.state_lock.lock() *)
AcquireLock(thread) ==
    /\ threads[thread].pc = "waiting"
    /\ state_lock[threads[thread].core] = {}
    /\ state_lock' = [state_lock EXCEPT ![threads[thread].core] = {thread}]
    /\ threads' = [threads EXCEPT ![thread].pc = "locked"]
    /\ UNCHANGED <<config, verifiers, policyFile, policyTmp, policyBak, nonces, commands,
                   sessions, now, faults, accepted, last, auditLog, auditRoom,
                   nanos, leases, dispatched>>

(* self.execute_locked(request, &payload_bytes, &request_hash) *)
RunLockedFrom(thread) ==
    /\ \E request \in threads[thread].request :
       \E out \in {execute_locked(request, signing_bytes(request.payload),
                                  sha256_hex(signing_bytes(request.payload)), now, AllOk)} :
        /\ nonces' = out.nonces
        /\ sessions' = out.sessions
        /\ nanos' = NanosAfter(request, out)
        /\ leases' = Track(leases, sessions, out.sessions, request, out.response)
        /\ dispatched' = DispatchedAfter(dispatched, request, out)
        /\ threads' = [threads EXCEPT ![thread].out = {out},
                                      ![thread].pc = IF out.persist THEN "persist"
                                                     ELSE "audit"]
        /\ UNCHANGED <<config, verifiers, policyFile, policyTmp, policyBak, commands, now,
                       faults, accepted, state_lock, last, auditLog, auditRoom>>

RunLocked(thread) ==
    /\ threads[thread].pc = "locked"
    /\ RunLockedFrom(thread)

(* store_command_record reads commands.json *)
ReadCommandStore(thread) ==
    /\ threads[thread].pc = "persist"
    /\ threads' = [threads EXCEPT ![thread].store = {commands}, ![thread].pc = "write"]
    /\ UNCHANGED <<config, verifiers, policyFile, policyTmp, policyBak, nonces, commands,
                   sessions, now, faults, accepted, state_lock, last, auditLog, auditRoom,
                   nanos, leases, dispatched>>

(* store_command_record inserts the record and writes commands.json *)
WriteCommandStore(thread) ==
    \E request \in threads[thread].request :
    \E out \in threads[thread].out :
    \E store \in threads[thread].store :
        /\ threads[thread].pc = "write"
        /\ commands' = store_command_record(store, out.response.commandId,
                                            sha256_hex(signing_bytes(request.payload)),
                                            out.response, "ok")
        /\ threads' = [threads EXCEPT ![thread].pc = "audit"]
        /\ UNCHANGED <<config, verifiers, policyFile, policyTmp, policyBak, nonces,
                       sessions, now, faults, accepted, state_lock, last, auditLog, auditRoom,
                   nanos, leases, dispatched>>

(* self.write_audit_log(..), called while the guard is still in scope *)
WriteAuditLog(thread) ==
    /\ threads[thread].pc = "audit"
    /\ \E request \in threads[thread].request :
       \E out \in threads[thread].out :
        auditLog' = write_audit_log(auditLog,
                                    AuditLogEntry(out.response,
                                                  sha256_hex(signing_bytes(request.payload)),
                                                  request.payload.command),
                                    auditRoom > 0)
    /\ auditRoom' = Max(auditRoom - 1, 0)
    /\ threads' = [threads EXCEPT ![thread].pc = "return"]
    /\ UNCHANGED <<config, verifiers, policyFile, policyTmp, policyBak, nonces, commands,
                   sessions, now, faults, accepted, state_lock, last,
                   nanos, leases, dispatched>>

(* the guard is dropped as execute_request returns the response *)
ReleaseLock(thread) ==
    /\ threads[thread].pc = "return"
    /\ state_lock' = [state_lock EXCEPT ![threads[thread].core] = {}]
    /\ threads' = [threads EXCEPT ![thread].pc = "done"]
    /\ UNCHANGED <<config, verifiers, policyFile, policyTmp, policyBak, nonces, commands,
                   sessions, now, faults, accepted, last, auditLog, auditRoom,
                   nanos, leases, dispatched>>

InitConc ==
    /\ InitStores({TestConfig(FALSE)}, {{TestPolicy(1)}})
    /\ auditRoom = MaxLog
    /\ state_lock = [core \in Cores |-> {}]
    /\ threads \in {[thread \in Threads |-> Thread("idle", placed[thread], {}, {}, {})] :
                       placed \in [Threads -> Cores]}

NextConc ==
    \E thread \in Threads :
        \/ \E request \in ConcurrentRequests : Invoke(thread, request)
        \/ AcquireLock(thread)
        \/ RunLocked(thread)
        \/ ReadCommandStore(thread)
        \/ WriteCommandStore(thread)
        \/ WriteAuditLog(thread)
        \/ ReleaseLock(thread)

SpecConc == InitConc /\ [][NextConc]_vars

----------------------------------------------------------------------------
(* Properties of the request pipeline.  A call is the step from an idle    *)
(* state to the state holding its response; unprimed variables are the     *)
(* stores before the call, primed ones the stores after it.                *)

ExecuteCall == last.op = "idle" /\ last'.op = "execute"

(* the request passes the schema check, the policy loads with defaultAction *)
(* deny, and the security checks pass                                       *)
Accepted(request) ==
    /\ validate_payload_basic(request.payload) = "OK"
    /\ \E policy \in load_policy.policy :
          /\ policy.defaultAction = "deny"
          /\ verify_request_security(request, signing_bytes(request.payload),
                                     policy, now) = "OK"

RequestHashOf(request) == sha256_hex(signing_bytes(request.payload))

(* C1: under requireSignature, a schema-valid request whose keyId is not in *)
(* the effective key set, or whose signature the verifier of the policy's   *)
(* algorithm rejects, gets ok=false / INVALID_SIGNATURE; the nonce, command *)
(* and session stores are unchanged, no script is run, and exactly one      *)
(* audit line is written.                                                   *)
C1_BadSignatureRejected ==
    [][ (/\ ExecuteCall
         /\ validate_payload_basic(last'.request.payload) = "OK"
         /\ \E policy \in load_policy.policy :
               /\ policy.defaultAction = "deny"
               /\ policy.security.requireSignature
               /\ LET keys == IF DOMAIN policy.security.publicKeys # {}
                              THEN policy.security.publicKeys
                              ELSE config.bootstrapPublicKeys
                      sig == last'.request.signature
                  IN \/ sig.keyId \notin DOMAIN keys
                     \/ /\ EqIgnoreAsciiCase(sig.algorithm,
                                             policy.security.signatureAlgorithm)
                        /\ ToLower(sig.algorithm) \in verifiers
                        /\ ~Ed25519Verify(keys[sig.keyId],
                                          signing_bytes(last'.request.payload),
                                          sig.signature))
        => /\ ~last'.response.ok
           /\ last'.response.code = "INVALID_SIGNATURE"
           /\ nonces' = nonces /\ commands' = commands /\ sessions' = sessions
           /\ last'.scripts = <<>>
           /\ Len(last'.audit) = 1
           /\ last'.audit[1].code = "INVALID_SIGNATURE" ]_vars

(* a payload altered after signing is rejected while the stores hold data *)
C1_Witness ==
    /\ last.op = "execute"
    /\ last.response.code = "INVALID_SIGNATURE"
    /\ last.request.signature.signature.over # signing_bytes(last.request.payload)
    /\ commands # EmptyMap
    /\ nonces # EmptyMap

(* C2: a request that passes the schema, policy and security checks and    *)
(* whose commandId has a stored record with the same requestHash gets the  *)
(* stored response with idempotentReplay = true and nothing else changed;  *)
(* no script is run and the nonce, session and command stores are as before *)
C2_IdempotentReplay ==
    [][ (/\ ExecuteCall
         /\ Accepted(last'.request)
         /\ last'.request.payload.commandId \in DOMAIN commands
         /\ commands[last'.request.payload.commandId].requestHash
               = RequestHashOf(last'.request))
        => /\ last'.response
                = [commands[last'.request.payload.commandId].response
                      EXCEPT !.idempotentReplay = TRUE]
           /\ last'.scripts = <<>>
           /\ nonces' = nonces /\ sessions' = sessions /\ commands' = commands ]_vars

(* a successful response is replayed at a later time, after its nonce *)
(* reservation has expired                                            *)
C2_Witness ==
    /\ last.op = "execute"
    /\ last.response.idempotentReplay
    /\ last.response.ok
    /\ last.response.executedAt + 1 < now
    /\ commands[last.request.payload.commandId].response.idempotentReplay = FALSE

(* C3: a request that passes the security checks and whose commandId has a *)
(* stored record with a different requestHash gets COMMAND_ID_CONFLICT; the *)
(* command store is unchanged, no nonce is reserved and no script is run   *)
C3_CommandIdConflict ==
    [][ (/\ ExecuteCall
         /\ Accepted(last'.request)
         /\ last'.request.payload.commandId \in DOMAIN commands
         /\ commands[last'.request.payload.commandId].requestHash
               # RequestHashOf(last'.request))
        => /\ ~last'.response.ok
           /\ last'.response.code = "COMMAND_ID_CONFLICT"
           /\ commands' = commands
           /\ nonces' = nonces /\ sessions' = sessions
           /\ last'.scripts = <<>> ]_vars

(* the conflicting request carried a nonce that is still free afterwards *)
C3_Witness ==
    /\ last.op = "execute"
    /\ last.response.code = "COMMAND_ID_CONFLICT"
    /\ last.request.payload.nonce \notin DOMAIN nonces
    /\ commands[last.request.payload.commandId].response.ok

(* the policy in force requires nonces, with this effective TTL *)
NonceTtl == {Max(policy.security.nonceTtlSeconds, 1) :
                policy \in {q \in load_policy.policy : q.security.requireNonce}}

(* the payload a stored requestHash was computed from *)
HashedPayload(request_hash) == request_hash[2][2]

(* C4 as stated: once a successful execute used nonce n, every later       *)
(* request carrying n within the nonce TTL of that execute gets            *)
(* NONCE_REPLAY                                                            *)
C4_AnyReuseIsNonceReplay ==
    [][ (/\ ExecuteCall
         /\ \E ttl \in NonceTtl : \E cid \in DOMAIN commands :
               /\ commands[cid].response.ok
               /\ HashedPayload(commands[cid].requestHash).nonce
                     = last'.request.payload.nonce
               /\ now - commands[cid].response.executedAt <= ttl)
        => last'.response.code = "NONCE_REPLAY" ]_vars

(* C4, amended: an execute that succeeds (not as a replay) under           *)
(* requireNonce leaves its nonce in the nonce store, stamped with the time *)
(* of the call; and a request that passes the schema, policy and security  *)
(* checks, whose commandId has no stored record, and whose nonce is in the *)
(* nonce store with an age of at most max(1, nonceTtlSeconds), gets        *)
(* NONCE_REPLAY and changes no store                                       *)
C4_NonceReplay ==
    [][ /\ (/\ ExecuteCall
            /\ NonceTtl # {}
            /\ last'.response.ok
            /\ ~last'.response.idempotentReplay)
           => /\ last'.request.payload.nonce \in DOMAIN nonces'
              /\ nonces'[last'.request.payload.nonce] = now
        /\ (/\ ExecuteCall
            /\ Accepted(last'.request)
            /\ last'.request.payload.commandId \notin DOMAIN commands
            /\ last'.request.payload.nonce \in DOMAIN nonces
            /\ \E ttl \in NonceTtl :
                  now - nonces[last'.request.payload.nonce] <= ttl)
           => /\ last'.response.code = "NONCE_REPLAY"
              /\ nonces' = nonces /\ commands' = commands /\ sessions' = sessions
              /\ last'.scripts = <<>> ]_vars

(* the nonce of a stored successful command is refused to another command *)
(* at the last moment of its TTL                                          *)
C4_Witness ==
    /\ last.op = "execute"
    /\ last.response.code = "NONCE_REPLAY"
    /\ last.request.payload.nonce \in DOMAIN nonces
    /\ now = nonces[last.request.payload.nonce] + 1
    /\ \E cid \in DOMAIN commands :
          /\ cid # last.request.payload.commandId
          /\ commands[cid].response.ok
          /\ HashedPayload(commands[cid].requestHash).nonce = last.request.payload.nonce

(* the steps of execute_locked from the command match on *)
MatchedStages == {"match", "session-gate", "params", "session-touch", "dispatch", "done"}

(* C5: every execute call that gets as far as the command match ends with *)
(* the record {requestHash, response} stored under its commandId          *)
C5_OutcomeAlwaysStored ==
    [][ (/\ ExecuteCall
         /\ last'.stage \in MatchedStages)
        => /\ last'.request.payload.commandId \in DOMAIN commands'
           /\ commands'[last'.request.payload.commandId]
                 = [requestHash |-> RequestHashOf(last'.request),
                    response |-> last'.response] ]_vars

(* C6: an execute call that returns before the command match leaves the *)
(* command store as it was, whichever check made it return              *)
C6_EarlyReturnNotStored ==
    [][ (/\ ExecuteCall
         /\ last'.stage \notin MatchedStages)
        => /\ commands' = commands
           /\ \/ last'.response.idempotentReplay
              \/ last'.response.code \in
                    {"INVALID_SCHEMA", "POLICY_NOT_FOUND", "POLICY_INVALID",
                     "INVALID_SIGNATURE", "UNSUPPORTED_SIGNATURE_ALGORITHM",
                     "DEVICE_ID_MISMATCH", "REQUEST_NOT_YET_VALID", "REQUEST_EXPIRED",
                     "COMMAND_ID_CONFLICT", "NONCE_REPLAY", "INTERNAL_ERROR"} ]_vars

(* the nonce store could not be written: the call fails and its commandId *)
(* is still free, next to the record of another command                   *)
C6_Witness ==
    /\ last.op = "execute"
    /\ last.stage = "nonce"
    /\ last.response.code = "INTERNAL_ERROR"
    /\ last.request.payload.commandId \notin DOMAIN commands
    /\ commands # EmptyMap

----------------------------------------------------------------------------
(* Properties of the session gate *)

(* the call matched an enabled command that requires a session and either *)
(* stopped at the session gate, the parameter validation or the session   *)
(* touch, or went on to the handler                                       *)
SessionGated ==
    /\ ExecuteCall
    /\ last'.stage \in {"session-gate", "params", "session-touch", "dispatch", "done"}
    /\ \E policy \in load_policy.policy :
          \E c \in FindCommand(policy, last'.request.payload.command) :
              c.requiresSession

(* the request names a session that is in the store, belongs to the *)
(* request's device and has not expired                             *)
NamesLiveSession ==
    /\ "sessionId" \in DOMAIN last'.request.payload.params
    /\ "str" \in DOMAIN last'.request.payload.params.sessionId
    /\ last'.request.payload.params.sessionId.str \in DOMAIN sessions
    /\ sessions[last'.request.payload.params.sessionId.str].deviceId
          = last'.request.payload.deviceId
    /\ sessions[last'.request.payload.params.sessionId.str].expiresAt > now

(* C7 as stated: a requiresSession command reaches its handler only when *)
(* the named session is live for the device; in every other case nothing  *)
(* is run and the code is SESSION_REQUIRED, SESSION_NOT_FOUND or          *)
(* SESSION_EXPIRED                                                        *)
C7_OnlySessionCodes ==
    [][ SessionGated
        => IF last'.stage \in {"dispatch", "done"}
           THEN NamesLiveSession
           ELSE /\ last'.scripts = <<>>
                /\ last'.response.code \in
                      {"SESSION_REQUIRED", "SESSION_NOT_FOUND", "SESSION_EXPIRED"} ]_vars

(* C7, amended: a requiresSession command reaches its handler only when   *)
(* the named session is live for the device, and then the session has     *)
(* been touched; in every other case nothing is run and the response is   *)
(* SESSION_REQUIRED when no sessionId is given, a parameter or path error *)
(* when the parameters are refused, and otherwise SESSION_REQUIRED (blank *)
(* sessionId), SESSION_NOT_FOUND, SESSION_EXPIRED, or INTERNAL_ERROR when *)
(* the rewrite of the session store failed for a session that is in the   *)
(* store for this device                                                  *)
C7_SessionGate ==
    [][ SessionGated
        => IF last'.stage \in {"dispatch", "done"}
           THEN /\ NamesLiveSession
                /\ sessions'[last'.request.payload.params.sessionId.str].lastHeartbeatAt
                      = now
           ELSE /\ last'.scripts = <<>>
                /\ ~last'.response.ok
                /\ last'.stage = "session-gate"
                      => last'.response.code = "SESSION_REQUIRED"
                /\ last'.stage = "params"
                      => /\ last'.response.code \in
                               {"INVALID_PARAMETER", "PATH_NOT_FOUND", "PATH_NOT_ALLOWED"}
                         /\ sessions' = sessions
                /\ last'.stage = "session-touch"
                      => last'.response.code \in
                            {"SESSION_REQUIRED", "SESSION_NOT_FOUND", "SESSION_EXPIRED",
                             "INTERNAL_ERROR"}
                /\ last'.response.code = "INTERNAL_ERROR"
                      => /\ "sessionId" \in DOMAIN last'.request.payload.params
                         /\ last'.request.payload.params.sessionId.str \in DOMAIN sessions
                         /\ sessions[last'.request.payload.params.sessionId.str].deviceId
                               = last'.request.payload.deviceId ]_vars

(* an image is mounted under a session begun a second earlier, while the *)
(* other device was refused that session                                 *)
C7_Witness ==
    /\ last.op = "execute"
    /\ last.stage = "done"
    /\ last.request.payload.command = "mount_vhd"
    /\ Len(last.scripts) = 1
    /\ sessions[last.request.payload.params.sessionId.str].issuedAt < now
    /\ "m2" \in DOMAIN commands
    /\ commands["m2"].response.code = "SESSION_NOT_FOUND"
    /\ HashedPayload(commands["m2"].requestHash).params
          = last.request.payload.params

----------------------------------------------------------------------------
(* Properties of the policy updates.  An update call is the step from an   *)
(* idle state to the state holding its response.                           *)

UpdateCall == last.op = "idle" /\ last'.op = "update"

(* the envelope passes the checks made before the current policy is loaded *)
WellFormed(payload) ==
    /\ payload.schemaVersion = SCHEMA_VERSION
    /\ payload.policy.defaultAction = "deny"
    /\ payload.policy.version = payload.version

(* C9 as stated: once an update has succeeded at version v, every update    *)
(* with version <= v returns POLICY_UPDATE_VERSION_REJECTED.                *)
C9_AnyStaleUpdateRejected ==
    [][(UpdateCall /\ accepted > 0 /\ last'.request.payload.version <= accepted)
       => last'.response.code = "POLICY_UPDATE_VERSION_REJECTED"]_vars

(* C9: an update that succeeds at version v leaves policy.json holding the  *)
(* policy of version v; while policy.json holds a readable policy of        *)
(* version v, an update with version <= v that is well-formed               *)
(* (schemaVersion 1, defaultAction deny, version of the policy equal to     *)
(* that of the envelope) returns ok=false / POLICY_UPDATE_VERSION_REJECTED  *)
(* and leaves the three policy files as they were; one that is not          *)
(* well-formed returns INVALID_SCHEMA or POLICY_INVALID instead.            *)
C9_StaleUpdateRejected ==
    [][UpdateCall
       => /\ last'.response.code = "OK"
                => /\ policyFile' = {last'.request.payload.policy}
                   /\ last'.request.payload.policy.version
                         = last'.request.payload.version
                   /\ accepted' >= last'.request.payload.version
          /\ (/\ WellFormed(last'.request.payload)
              /\ \E current \in load_policy.policy :
                    last'.request.payload.version <= current.version)
                => /\ last'.response.code = "POLICY_UPDATE_VERSION_REJECTED"
                   /\ ~last'.response.ok
                   /\ ~last'.response.rolledBack
                   /\ <<policyFile, policyTmp, policyBak>>'
                         = <<policyFile, policyTmp, policyBak>>
          /\ ~WellFormed(last'.request.payload)
                => last'.response.code \in {"INVALID_SCHEMA", "POLICY_INVALID"}]_vars

(* version 2 was installed and a well-formed update of version 1 or 2 has *)
(* just been rejected                                                     *)
C9_Witness ==
    /\ last.op = "update"
    /\ accepted >= 2
    /\ last.request.payload.version <= accepted
    /\ WellFormed(last.request.payload)
    /\ last.response.code = "POLICY_UPDATE_VERSION_REJECTED"
    /\ \E policy \in policyFile : policy.version = accepted

(* the replace failed after policy.json had been renamed to the backup: the *)
(* flag is set, or the rename of the tmp file over policy.json failed       *)
FailedAfterBackup ==
    /\ UpdateCall
    /\ "renameToBak" \in last'.used
    /\ last'.fs.renameToBak
    /\ config.policyReplaceFailAfterBackup \/ ~last'.fs.renameTmp

(* C10 as stated: when the replace fails after the backup was created,     *)
(* policy.json holds the bytes it held before the update and the response  *)
(* has code POLICY_UPDATE_ROLLBACK and rolledBack = true.                  *)
C10_AlwaysRolledBack ==
    [][FailedAfterBackup
       => /\ policyFile' = policyFile
          /\ last'.response.code = "POLICY_UPDATE_ROLLBACK"
          /\ last'.response.rolledBack]_vars

(* C10: when the replace fails after the backup was created, the response  *)
(* has ok=false and code POLICY_UPDATE_ROLLBACK, and rolledBack tells      *)
(* whether the rename of the backup to policy.json succeeded: if it did,   *)
(* policy.json holds the bytes it held before the update and no backup is  *)
(* left; if it did not, policy.json is missing and those bytes are in the  *)
(* backup.                                                                 *)
C10_Rollback ==
    [][FailedAfterBackup
       => /\ last'.response.code = "POLICY_UPDATE_ROLLBACK"
          /\ ~last'.response.ok
          /\ last'.response.rolledBack = last'.fs.restore
          /\ IF last'.fs.restore
             THEN policyFile' = policyFile /\ policyBak' = {}
             ELSE policyFile' = {} /\ policyBak' = policyFile]_vars

(* with the flag set, a valid update from version 1 to version 2 was rolled *)
(* back: policy.json still holds version 1                                  *)
C10_Witness ==
    /\ last.op = "update"
    /\ config.policyReplaceFailAfterBackup
    /\ last.request.payload.version = 2
    /\ "restore" \in last.used
    /\ last.response.code = "POLICY_UPDATE_ROLLBACK"
    /\ last.response.rolledBack
    /\ policyFile = {TestPolicy(1)}
    /\ policyBak = {}

(* the keys an update is verified against: those of the readable current *)
(* policy when it has any, else the bootstrap keys                       *)
UpdateKeys ==
    IF \E current \in load_policy.policy : DOMAIN current.security.publicKeys # {}
    THEN (CHOOSE current \in load_policy.policy : TRUE).security.publicKeys
    ELSE config.bootstrapPublicKeys

(* the update is well-formed and its version is above that of the current *)
(* policy, so that its signature is looked at                             *)
ReachesSignature(payload) ==
    /\ WellFormed(payload)
    /\ \A current \in load_policy.policy : payload.version > current.version

(* C11: an update whose signature is looked at and does not verify against *)
(* the effective key set (the set is empty, the keyId is not in it, no     *)
(* verifier is registered for the algorithm, or the verifier rejects the   *)
(* signature) returns POLICY_UPDATE_INVALID_SIGNATURE and leaves           *)
(* policy.json as it was.                                                  *)
C11_UpdateSignatureRejected ==
    [][(/\ UpdateCall
        /\ ReachesSignature(last'.request.payload)
        /\ \/ DOMAIN UpdateKeys = {}
           \/ last'.request.signature.keyId \notin DOMAIN UpdateKeys
           \/ ToLower(last'.request.signature.algorithm) \notin verifiers
           \/ ~Ed25519Verify(UpdateKeys[last'.request.signature.keyId],
                             signing_bytes(last'.request.payload),
                             last'.request.signature.signature))
       => /\ last'.response.code = "POLICY_UPDATE_INVALID_SIGNATURE"
          /\ policyFile' = policyFile]_vars

----------------------------------------------------------------------------
(* Properties of the files a policy update leaves *)

(* C31 as stated: an update that returns ok = false leaves policy.json   *)
(* as it was, except when it returns POLICY_UPDATE_ROLLBACK with         *)
(* rolledBack = false; rolledBack = true comes only with                 *)
(* POLICY_UPDATE_ROLLBACK; a failed swap leaves no policy.json.tmp; an   *)
(* update that returns ok = true leaves the new policy in policy.json    *)
(* and neither policy.json.tmp nor policy.json.bak.                      *)
C31_NoFileLeftBehind ==
    [][UpdateCall
       => /\ ~last'.response.ok
                => \/ policyFile' = policyFile
                   \/ /\ last'.response.code = "POLICY_UPDATE_ROLLBACK"
                      /\ ~last'.response.rolledBack
          /\ last'.response.rolledBack
                => last'.response.code = "POLICY_UPDATE_ROLLBACK"
          /\ last'.response.code = "POLICY_UPDATE_ROLLBACK" => policyTmp' = {}
          /\ last'.response.ok
                => /\ policyFile' = {last'.request.payload.policy}
                   /\ policyTmp' = {}
                   /\ policyBak' = {}]_vars

(* C31, amended: the same for policy.json and rolledBack; a failed swap   *)
(* that got as far as the rename of policy.json to the backup leaves no   *)
(* policy.json.tmp when the removal of it succeeds and leaves it when     *)
(* the removal fails, and a failed first install (no policy.json, the     *)
(* rename of the tmp file fails) leaves the tmp file; an update that      *)
(* returns ok = true leaves the new policy in policy.json and no          *)
(* policy.json.tmp, and leaves no policy.json.bak when policy.json was    *)
(* replaced and the removal of the backup succeeded: a backup whose       *)
(* removal fails stays, and a first install leaves an older backup alone. *)
C31_FilesAfterUpdate ==
    [][UpdateCall
       => /\ ~last'.response.ok
                => \/ policyFile' = policyFile
                   \/ /\ last'.response.code = "POLICY_UPDATE_ROLLBACK"
                      /\ ~last'.response.rolledBack
                      /\ policyFile' = {}
                      /\ policyBak' = policyFile
          /\ last'.response.rolledBack
                => /\ last'.response.code = "POLICY_UPDATE_ROLLBACK"
                   /\ ~last'.response.ok
                   /\ policyFile' = policyFile
          /\ last'.response.code = "POLICY_UPDATE_ROLLBACK"
                => policyTmp'
                      = IF "removeTmp" \in last'.used
                        THEN IF last'.fs.removeTmp THEN {}
                             ELSE {last'.request.payload.policy}
                        ELSE IF "renameTmp" \in last'.used
                        THEN {last'.request.payload.policy}
                        ELSE policyTmp
          /\ last'.response.ok
                => /\ policyFile' = {last'.request.payload.policy}
                   /\ policyTmp' = {}
                   /\ policyBak' = IF policyFile = {} THEN policyBak
                                   ELSE IF last'.fs.removeBak THEN {}
                                   ELSE policyFile]_vars

(* the rename of policy.json to the backup failed: the update returned  *)
(* POLICY_UPDATE_ROLLBACK with rolledBack = false, policy.json is as it *)
(* was and the tmp file is gone                                         *)
C31_Witness ==
    /\ last.op = "update"
    /\ ~last.fs.renameToBak
    /\ last.response.code = "POLICY_UPDATE_ROLLBACK"
    /\ ~last.response.rolledBack
    /\ policyFile = {TestPolicy(1)}
    /\ policyTmp = {}
    /\ policyBak = {}

(* an update succeeded and a backup is left beside the new policy *)
C31_WitnessBackup ==
    /\ last.op = "update"
    /\ last.response.ok
    /\ policyFile = {last.request.payload.policy}
    /\ policyBak # {}

(* the policy of the update is not one that may be installed *)
NotInstallable(payload) ==
    \/ payload.policy.defaultAction # "deny"
    \/ payload.policy.version # payload.version

(* C33 as stated: an update whose policy has a defaultAction other than  *)
(* deny or a version other than that of the envelope returns             *)
(* POLICY_INVALID and leaves policy.json as it was; after a successful   *)
(* update the policy on disk has defaultAction deny and the version of   *)
(* the response.                                                         *)
C33_AlwaysPolicyInvalid ==
    [][UpdateCall
       => /\ NotInstallable(last'.request.payload)
                => /\ last'.response.code = "POLICY_INVALID"
                   /\ policyFile' = policyFile
          /\ last'.response.ok
                => \E policy \in policyFile' :
                       /\ policyFile' = {policy}
                       /\ policy.defaultAction = "deny"
                       /\ policy.version = last'.response.version]_vars

(* C33, amended: such an update is never installed: it leaves the three *)
(* policy files as they were and returns POLICY_INVALID when its        *)
(* schemaVersion is 1 and INVALID_SCHEMA when it is not; after a        *)
(* successful update the policy on disk is the policy of the update,    *)
(* with defaultAction deny and the version of the response, which is    *)
(* the version of the envelope.                                         *)
C33_NeverInstalled ==
    [][UpdateCall
       => /\ NotInstallable(last'.request.payload)
                => /\ last'.response.code
                         = IF last'.request.payload.schemaVersion = SCHEMA_VERSION
                           THEN "POLICY_INVALID" ELSE "INVALID_SCHEMA"
                   /\ ~last'.response.ok /\ ~last'.response.rolledBack
                   /\ <<policyFile, policyTmp, policyBak>>'
                         = <<policyFile, policyTmp, policyBak>>
          /\ last'.response.ok
                => \E policy \in policyFile' :
                       /\ policyFile' = {policy}
                       /\ policy = last'.request.payload.policy
                       /\ policy.defaultAction = "deny"
                       /\ policy.version = last'.response.version
                       /\ last'.response.version = last'.request.payload.version]_vars

(* an update of version 3 that carries a policy of version 2 was refused *)
(* while policy.json holds version 1                                     *)
C33_Witness ==
    /\ last.op = "update"
    /\ last.request.payload.version = 3
    /\ last.request.payload.policy.version = 2
    /\ last.response.code = "POLICY_INVALID"
    /\ policyFile = {TestPolicy(1)}

----------------------------------------------------------------------------
(* Properties of the stores each operation leaves alone *)

(* C12: a policy update, whatever its outcome, leaves the nonce, command   *)
(* and session stores and the audit log as they were; an execute call      *)
(* never changes policy.json; a request that passes the schema, policy and *)
(* security checks under the policy now installed and whose commandId has  *)
(* a record with the same requestHash is answered with that record as a    *)
(* replay, whichever policy the record was stored under.                   *)
C12_Frame ==
    [][ /\ UpdateCall
           => /\ nonces' = nonces /\ commands' = commands /\ sessions' = sessions
              /\ auditLog' = auditLog
        /\ ExecuteCall
           => /\ policyFile' = policyFile
              /\ (/\ Accepted(last'.request)
                  /\ last'.request.payload.commandId \in DOMAIN commands
                  /\ commands[last'.request.payload.commandId].requestHash
                        = RequestHashOf(last'.request))
                 => /\ last'.response
                          = [commands[last'.request.payload.commandId].response
                                EXCEPT !.idempotentReplay = TRUE]
                    /\ commands' = commands ]_vars

(* a successful response stored under policy version 1 is replayed while   *)
(* the installed policy, version 2, allows no command; the log holds lines *)
C12_Witness ==
    /\ last.op = "execute"
    /\ last.response.idempotentReplay
    /\ last.response.ok
    /\ policyFile = {StrictPolicy(2)}
    /\ Len(auditLog) > 0

----------------------------------------------------------------------------
(* Properties of the session lifetime *)

(* the call is a heartbeat that reached its handler *)
HeartbeatCall ==
    /\ ExecuteCall
    /\ ToLower(last'.request.payload.command) = "heartbeat"
    /\ last'.stage \in {"dispatch", "done"}

NamedSession == get_string(last'.request.payload.params, "sessionId")

(* C13 as stated: a heartbeat from the device of a session that was begun, *)
(* never touched, and whose expiresAt has passed, is answered              *)
(* SESSION_EXPIRED if no heartbeat has reported the expiry before and the  *)
(* session was not ended, whatever was executed in between                 *)
C13_AlwaysSessionExpired ==
    [][ HeartbeatCall
        => \A sid \in NamedSession :
              (/\ sid \in DOMAIN leases
               /\ leases[sid].state = "live"
               /\ ~leases[sid].touched
               /\ leases[sid].expiresAt <= now
               /\ leases[sid].deviceId = last'.request.payload.deviceId)
              => last'.response.code = "SESSION_EXPIRED" ]_vars

(* C13, amended: a heartbeat that reaches its handler is answered by what  *)
(* the session store holds.  If the named session is in the store for the  *)
(* device of the request and its expiresAt has passed, the answer is       *)
(* SESSION_EXPIRED and the record is removed; if it has not passed, the    *)
(* answer is OK and the session expires ttlSeconds from now; a failed      *)
(* rewrite of the store gives INTERNAL_ERROR in both cases.  If the        *)
(* session is not in the store, as after begin_session or the touch of     *)
(* another session has evicted it, the answer is SESSION_NOT_FOUND and the *)
(* store is unchanged.                                                     *)
C13_ExpiredWhileStored ==
    [][ HeartbeatCall
        => \A sid \in NamedSession :
             IF /\ sid \in DOMAIN sessions
                /\ sessions[sid].deviceId = last'.request.payload.deviceId
             THEN \/ /\ last'.response.code = "INTERNAL_ERROR"
                     /\ faults' > faults
                  \/ /\ sessions[sid].expiresAt <= now
                     /\ last'.response.code = "SESSION_EXPIRED"
                     /\ sid \notin DOMAIN sessions'
                  \/ /\ sessions[sid].expiresAt > now
                     /\ last'.response.code = "OK"
                     /\ sessions'[sid].expiresAt
                           = now + Max(sessions[sid].ttlSeconds, 1)
             ELSE /\ last'.response.code = "SESSION_NOT_FOUND"
                  /\ sessions' = sessions ]_vars

(* a heartbeat has been answered SESSION_EXPIRED while another session *)
(* is live in the store                                                *)
C13_Witness ==
    /\ last.op = "execute"
    /\ ToLower(last.request.payload.command) = "heartbeat"
    /\ last.response.code = "SESSION_EXPIRED"
    /\ \E sid \in DOMAIN sessions : sessions[sid].expiresAt > now

EndedSessions == {sid \in DOMAIN leases : leases[sid].state = "ended"}

(* the call reached the step that looks the named session up: the handler *)
(* of heartbeat or end_session, or the session touch of a command that    *)
(* requires a session                                                     *)
SessionLookedUp ==
    /\ ExecuteCall
    /\ \/ /\ ToLower(last'.request.payload.command) \in {"heartbeat", "end_session"}
          /\ last'.stage \in {"dispatch", "done"}
       \/ /\ last'.stage \in {"session-touch", "dispatch", "done"}
          /\ \E policy \in load_policy.policy :
                \E c \in FindCommand(policy, last'.request.payload.command) :
                    c.requiresSession

(* C14: once end_session has succeeded for a session id, no record is in  *)
(* the session store under that id in any later state, and every later    *)
(* heartbeat, end_session or session-bound command that names it and gets *)
(* as far as looking it up is answered SESSION_NOT_FOUND and leaves the    *)
(* store as it was.                                                       *)
C14_EndedStaysAbsent ==
    [][ /\ \A sid \in EndedSessions' : sid \notin DOMAIN sessions'
        /\ SessionLookedUp
           => \A sid \in NamedSession \cap EndedSessions :
                 /\ last'.response.code = "SESSION_NOT_FOUND"
                 /\ sessions' = sessions ]_vars

(* a session was ended before its expiry; a new heartbeat command that *)
(* names it is answered SESSION_NOT_FOUND while its expiry has not     *)
(* passed and another session is in the store                          *)
C14_Witness ==
    /\ last.op = "execute"
    /\ ToLower(last.request.payload.command) = "heartbeat"
    /\ ~last.response.idempotentReplay
    /\ last.response.code = "SESSION_NOT_FOUND"
    /\ \E sid \in get_string(last.request.payload.params, "sessionId") :
          /\ sid \in EndedSessions
          /\ leases[sid].expiresAt > now
    /\ sessions # EmptyMap

----------------------------------------------------------------------------
(* Properties of the audit log *)

(* the log after the step is the log before it followed by one line that *)
(* carries the response's commandId, code, ok and idempotentReplay and    *)
(* the request's command and requestHash                                  *)
OneLineAppended ==
    /\ Len(auditLog') = Len(auditLog) + 1
    /\ SubSeq(auditLog', 1, Len(auditLog)) = auditLog
    /\ \E line \in {auditLog'[Len(auditLog')]} :
          /\ line.commandId = last'.response.commandId
          /\ line.code = last'.response.code
          /\ line.ok = last'.response.ok
          /\ line.idempotentReplay = last'.response.idempotentReplay
          /\ line.command = last'.request.payload.command
          /\ line.requestHash = RequestHashOf(last'.request)

(* C15 as stated: every execute call appends exactly one such line *)
C15_AlwaysOneLine ==
    [][ ExecuteCall => OneLineAppended ]_vars

(* C15, amended: every execute call, whatever its outcome, appends exactly *)
(* one such line when logs/audit.jsonl can be written, and leaves the log  *)
(* as it was, returning its response all the same, when it cannot; no step *)
(* modifies or removes a line that is in the log.                          *)
C15_OneLineWhenWritable ==
    [][ /\ ExecuteCall
           => IF auditRoom > 0 THEN OneLineAppended ELSE auditLog' = auditLog
        /\ Len(auditLog') >= Len(auditLog)
        /\ SubSeq(auditLog', 1, Len(auditLog)) = auditLog ]_vars

(* the log holds the line of a failed call followed by the line of a *)
(* replay, which the last call appended as the last line the log takes *)
C15_Witness ==
    /\ last.op = "execute"
    /\ Len(auditLog) = 2
    /\ ~auditLog[1].ok
    /\ auditLog[2].idempotentReplay
    /\ auditLog[2].commandId = last.response.commandId
    /\ auditRoom = 0

----------------------------------------------------------------------------
(* Properties of the BitLocker unlock.  The twins of a request are the     *)
(* requests that differ from it only in the value of one secret parameter; *)
(* a twin is run in the state in which the request itself was run.         *)

UnlockCall ==
    /\ ExecuteCall
    /\ ToLower(last'.request.payload.command) = "unlock_bitlocker"

Twins(request, values) ==
    { Sign([request.payload EXCEPT !.params[name] = [str |-> v]]) :
          name \in {n \in SecretNames \cap DOMAIN request.payload.params :
                       request.payload.params[n].str \in values},
          v \in values }

(* the runner does for the twin what it did for the request *)
TwinRun(twin) ==
    execute_locked(twin, signing_bytes(twin.payload), RequestHashOf(twin), now,
                   [AllOk EXCEPT !.runnerOk =
                                    last'.response.code # "COMMAND_EXECUTION_FAILED"])

ScriptsOf(calls) == [i \in 1..Len(calls) |-> calls[i].script]

SameScripts(twin) == ScriptsOf(TwinRun(twin).scripts) = ScriptsOf(last'.scripts)

(* C16 as stated: whatever non-empty value a secret parameter is given, *)
(* the scripts handed to the runner are the same                        *)
C16_AnyNonEmptySecret ==
    [][ UnlockCall
        => \A twin \in Twins(last'.request, SecretValues) : SameScripts(twin) ]_vars

(* C16, amended: whatever value that is not blank a secret parameter is    *)
(* given, the scripts handed to the runner are the same; the env map of    *)
(* the runner call holds the secret under CONFIGARC_UNLOCK_SECRET and      *)
(* nothing else, the script names that variable and holds no secret, and   *)
(* the audit line has no field for parameters and its requestHash is not   *)
(* the secret.                                                             *)
C16_SecretOnlyInEnv ==
    [][ UnlockCall
        => /\ \A twin \in Twins(last'.request, {v \in SecretValues : ~StrIsBlank(v)}) :
                 SameScripts(twin)
           /\ DOMAIN last'.audit[1]
                 = {"schemaVersion", "commandId", "command", "ok", "code",
                    "idempotentReplay", "requestHash"}
           /\ \A i \in 1..Len(last'.scripts) :
              \A secret \in {last'.request.payload.params[n].str :
                                n \in SecretNames \cap DOMAIN last'.request.payload.params} :
                 /\ DOMAIN last'.scripts[i].env = {"CONFIGARC_UNLOCK_SECRET"}
                 /\ StrIsBlank(secret)
                    \/ last'.scripts[i].env["CONFIGARC_UNLOCK_SECRET"] = secret
                 /\ last'.scripts[i].script.secretFrom = Str("$env:CONFIGARC_UNLOCK_SECRET")
                 /\ last'.scripts[i].script.mountPoint # secret
                 /\ last'.audit[1].requestHash # secret ]_vars

(* a volume has been unlocked with a recovery password that is in the env *)
(* map of the runner call                                                 *)
C16_Witness ==
    /\ last.op = "execute"
    /\ last.response.ok
    /\ Len(last.scripts) = 1
    /\ "recoveryPassword" \in DOMAIN last.request.payload.params
    /\ last.scripts[1].env["CONFIGARC_UNLOCK_SECRET"]
          = last.request.payload.params["recoveryPassword"].str
    /\ last.scripts[1].script.protector = "-RecoveryPassword"

(* the secret parameters of the request that have a value that is not blank *)
SuppliedSecrets(request) ==
    {n \in SecretNames \cap DOMAIN request.payload.params :
        /\ "str" \in DOMAIN request.payload.params[n]
        /\ ~StrIsBlank(request.payload.params[n].str)}

(* C30: unlock_bitlocker hands a script to the runner only when exactly   *)
(* one of recoveryPassword and password has a value that is not blank;    *)
(* when the handler is reached with both or with neither, the answer is   *)
(* INVALID_PARAMETER, no script is handed to the runner and the response  *)
(* is stored under the commandId; with exactly one, the handler hands one *)
(* script to the runner.                                                  *)
C30_ExactlyOneSecret ==
    [][ UnlockCall
        => \E supplied \in {SuppliedSecrets(last'.request)} :
              /\ last'.scripts # <<>> => Cardinality(supplied) = 1
              /\ (last'.stage \in {"dispatch", "done"} /\ Cardinality(supplied) # 1)
                     => /\ last'.response.code = "INVALID_PARAMETER"
                        /\ ~last'.response.ok
                        /\ last'.scripts = <<>>
                        /\ last'.response.commandId \in DOMAIN commands'
                        /\ commands'[last'.response.commandId].response = last'.response
                        /\ commands'[last'.response.commandId].requestHash
                              = RequestHashOf(last'.request)
              /\ (last'.stage \in {"dispatch", "done"} /\ Cardinality(supplied) = 1)
                     => /\ Len(last'.scripts) = 1
                        /\ last'.response.code \in {"OK", "COMMAND_EXECUTION_FAILED"} ]_vars

(* the handler was reached with a recovery password and a password, both *)
(* not blank: INVALID_PARAMETER is stored and no script was run          *)
C30_Witness ==
    /\ last.op = "execute"
    /\ last.request.payload.command = "unlock_bitlocker"
    /\ last.stage = "dispatch"
    /\ SuppliedSecrets(last.request) = SecretNames
    /\ last.response.code = "INVALID_PARAMETER"
    /\ ~last.response.idempotentReplay
    /\ last.scripts = <<>>
    /\ "u1" \in DOMAIN commands
    /\ commands["u1"].response = last.response

(* the handler was reached with a password and a blank recovery password *)
(* and the runner was called with the password                           *)
C30_WitnessBlank ==
    /\ last.op = "execute"
    /\ last.request.payload.command = "unlock_bitlocker"
    /\ SuppliedSecrets(last.request) = {"password"}
    /\ DOMAIN last.request.payload.params \cap SecretNames = SecretNames
    /\ Len(last.scripts) = 1
    /\ last.scripts[1].script.protector = "-Password"

----------------------------------------------------------------------------
(* Properties of the command match *)

(* C17: a request for restart_service, in any letter case, hands no script *)
(* to the runner, never gets past the command match, and leaves the        *)
(* session store alone; when it passes the schema, policy and security     *)
(* checks, has no stored record and its nonce is reserved, the answer is   *)
(* COMMAND_DISABLED if the policy lists restart_service, whatever the      *)
(* enabled flag of the entry, and POLICY_DENY if it does not.              *)
C17_RestartServiceDisabled ==
    [][ (/\ ExecuteCall
         /\ EqIgnoreAsciiCase(last'.request.payload.command, "restart_service"))
        => /\ last'.scripts = <<>>
           /\ last'.stage \in {"schema", "policy", "security", "idempotency", "nonce",
                               "match"}
           /\ sessions' = sessions
           /\ last'.stage = "match"
              => \E policy \in load_policy.policy :
                    last'.response.code
                       = IF FindCommand(policy, "restart_service") # {}
                         THEN "COMMAND_DISABLED" ELSE "POLICY_DENY"
           /\ (/\ Accepted(last'.request)
               /\ last'.request.payload.commandId \notin DOMAIN commands
               /\ last'.request.payload.nonce \notin DOMAIN nonces
               /\ faults' = faults)
              => last'.stage = "match" ]_vars

(* Restart_Service is answered COMMAND_DISABLED under a policy whose entry *)
(* for restart_service has enabled = true                                  *)
C17_Witness ==
    /\ last.op = "execute"
    /\ last.request.payload.command = "Restart_Service"
    /\ last.response.code = "COMMAND_DISABLED"
    /\ ~last.response.idempotentReplay
    /\ \E policy \in policyFile :
          \E c \in FindCommand(policy, "restart_service") : c.enabled

----------------------------------------------------------------------------
(* Properties of the canonical bytes *)

(* the choices of one element from each set of the sequence sets *)
Choices(sets) ==
    {f \in [1..Len(sets) -> UNION {sets[i] : i \in 1..Len(sets)}] :
        \A i \in 1..Len(sets) : f[i] \in sets[i]}

(* the orders in which n entries of one object can be inserted *)
Orders(n) ==
    {o \in [1..n -> 1..n] : \A i, j \in 1..n : i # j => o[i] # o[j]}

RECURSIVE Reorderings(_)
(* the documents equal to source as values: the same keys and values at *)
(* every depth, arrays in the same order, keys inserted in any order    *)
Reorderings(source) ==
    IF "obj" \in DOMAIN source
    THEN LET inner == Choices([i \in 1..Len(source.obj) |-> Reorderings(source.obj[i][2])])
         IN { [obj |-> [i \in 1..Len(source.obj) |->
                           <<source.obj[order[i]][1], values[order[i]]>>]] :
                  order \in Orders(Len(source.obj)), values \in inner }
    ELSE IF "arr" \in DOMAIN source
    THEN { [arr |-> values] :
              values \in Choices([i \in 1..Len(source.arr) |-> Reorderings(source.arr[i])]) }
    ELSE {source}

(* the number of objects and arrays open at each token of the bytes *)
Depths(bytes) ==
    [i \in 1..Len(bytes) |->
        Cardinality({j \in 1..(i - 1) : bytes[j] \in {[mark |-> "{"], [mark |-> "["]}})
        - Cardinality({j \in 1..(i - 1) : bytes[j] \in {[mark |-> "}"], [mark |-> "]"]}})]

(* the keys of every object stand in lexicographic order in the bytes *)
KeysInOrder(bytes) ==
    \E depth \in {Depths(bytes)} :
        \A i \in {k \in 1..Len(bytes) : "key" \in DOMAIN bytes[k]} :
            \A j \in {k \in (i + 1)..Len(bytes) : "key" \in DOMAIN bytes[k]} :
                ( /\ depth[j] = depth[i]
                  /\ \A k \in i..j : depth[k] >= depth[i] )
                => LexLess(bytes[i].key, bytes[j].key)

(* C18: two documents that are equal as values but were built with their  *)
(* keys inserted in different orders have the same canonical bytes, in    *)
(* which the keys of every object stand in lexicographic order, and       *)
(* sorting the sorted document again changes nothing.                     *)
C18_KeyOrderIndependent ==
    last.op = "canonical" =>
        /\ \A twin \in Reorderings(last.source) :
               canonical_json_bytes(to_value(twin, last.preserve_order),
                                    last.preserve_order) = last.bytes
        /\ KeysInOrder(last.bytes)
        /\ sort_json_value(last.sorted, last.preserve_order) = last.sorted
        /\ to_vec(last.sorted) = last.bytes

(* a document whose map iterates in insertion order was canonicalised: its *)
(* two keys were inserted in descending order, one value is an object one  *)
(* of whose keys is a prefix of the other and was inserted after it, the   *)
(* other an array holding such an object; it has eight insertion orders    *)
C18_Witness ==
    /\ last.op = "canonical"
    /\ last.preserve_order
    /\ Len(last.source.obj) = 2
    /\ LexLess(last.source.obj[2][1], last.source.obj[1][1])
    /\ last.source.obj[1][2] = [obj |-> <<<<<<1, 2>>, [int |-> 1]>>, <<<<1>>, [int |-> 1]>>>>]
    /\ last.source.obj[2][2] = [arr |-> <<[int |-> 2], last.source.obj[1][2]>>]
    /\ last.sorted # to_value(last.source, TRUE)
    /\ Cardinality(Reorderings(last.source)) = 8

----------------------------------------------------------------------------
(* Properties of the path rule *)

(* path is the root or a descendant of it, whatever the case of the letters *)
(* and the kind of the separators                                           *)
Under(path, root) ==
    \E p \in {LowerSeq([i \in 1..Len(path) |-> IF path[i] = "/" THEN "\\" ELSE path[i]])} :
    \E r \in {LowerSeq([i \in 1..Len(root) |-> IF root[i] = "/" THEN "\\" ELSE root[i]])} :
        /\ StartsWith(p, r)
        /\ \/ Len(p) = Len(r)
           \/ r[Len(r)] = "\\"
           \/ p[Len(r) + 1] = "\\"

(* the extension of the canonical path is one of the allowed ones *)
ExtensionAllowed(rule, path) ==
    \E e \in PathExtension(path) :
        \E a \in rule.allowExtensions : LowerSeq(a) = <<".">> \o LowerSeq(e)

(* the roots of the rule that canonicalize *)
CanonicalRoots(rule) ==
    { canonicalize_secure_path(rule.allowRoots[i]).path :
          i \in {j \in 1..Len(rule.allowRoots) :
                    canonicalize_secure_path(rule.allowRoots[j]).code = "OK"} }

(* C19: for a path that canonicalizes, a rule with extensions and no roots *)
(* accepts it exactly when its extension is allowed; a rule with roots     *)
(* accepts it only if it also lies under a canonicalized root, as the root *)
(* itself or a descendant; and a path outside every root is rejected with  *)
(* PATH_NOT_ALLOWED.                                                       *)
C19_PathRule ==
    (last.op = "path" /\ last.canonical.code = "OK") =>
        /\ (last.rule.allowRoots = <<>> /\ last.rule.allowExtensions # {})
               => (last.result.codes = {"OK"}
                      <=> ExtensionAllowed(last.rule, last.canonical.path))
        /\ (last.rule.allowRoots # <<>> /\ last.result.codes = {"OK"})
               => /\ last.rule.allowExtensions # {}
                      => ExtensionAllowed(last.rule, last.canonical.path)
                  /\ \E root \in CanonicalRoots(last.rule) :
                         Under(last.canonical.path, root)
        /\ (/\ last.rule.allowRoots # <<>>
            /\ \A root \in CanonicalRoots(last.rule) : ~Under(last.canonical.path, root))
               => last.result.codes = {"PATH_NOT_ALLOWED"}
        /\ last.result.codes = {"OK"}
               => last.result.validated = [n \in {"path"} |-> [str |-> last.canonical.path]]

----------------------------------------------------------------------------
(* Properties of the security checks *)

(* a call that passed the schema check and found a usable policy *)
SecurityChecked == last'.op = "execute" /\ last'.stage \notin {"schema", "policy"}

(* the policy asks for a signature, and the one of the request was not made *)
(* over this payload by the key that the policy holds under its keyId       *)
BadSignature(request, policy) ==
    /\ policy.security.requireSignature
    /\ \/ request.signature.keyId \notin DOMAIN policy.security.publicKeys
       \/ request.signature.signature
              # [key |-> policy.security.publicKeys[request.signature.keyId],
                 over |-> signing_bytes(request.payload)]

WrongDevice(request, policy) ==
    policy.security.requireDeviceBinding /\ request.payload.deviceId # DeviceId

InvertedWindow(request) == request.payload.expiresAt < request.payload.issuedAt

(* C20: the code of a request is that of the first check it fails, in the *)
(* order signature, device binding, validity window: INVALID_SIGNATURE    *)
(* for a bad signature whatever else is wrong; DEVICE_ID_MISMATCH for a   *)
(* well signed request of another device whatever its validity window;    *)
(* INVALID_SCHEMA for an inverted window only, and always, when signature *)
(* and device binding passed; then the window against the clock.          *)
C20_FirstFailingCheck ==
    [][SecurityChecked =>
        \E request \in {last'.request} :
        \E policy \in policyFile :
        \E code \in {last'.response.code} :
            /\ BadSignature(request, policy) => code = "INVALID_SIGNATURE"
            /\ (~BadSignature(request, policy) /\ WrongDevice(request, policy))
                   => code = "DEVICE_ID_MISMATCH"
            /\ (last'.stage = "security" /\ code = "INVALID_SCHEMA")
                   <=> /\ ~BadSignature(request, policy)
                       /\ ~WrongDevice(request, policy)
                       /\ InvertedWindow(request)
            /\ code \in {"REQUEST_EXPIRED", "REQUEST_NOT_YET_VALID"}
                   => /\ ~BadSignature(request, policy)
                      /\ ~WrongDevice(request, policy)
                      /\ ~InvertedWindow(request)
            /\ last'.stage = "security"
                   <=> \/ BadSignature(request, policy)
                       \/ WrongDevice(request, policy)
                       \/ InvertedWindow(request)
                       \/ now < request.payload.issuedAt - policy.security.maxClockSkewSeconds
                       \/ now > request.payload.expiresAt + policy.security.maxClockSkewSeconds
    ]_vars

(* a well signed request of another device whose validity window is *)
(* inverted was answered DEVICE_ID_MISMATCH                         *)
C20_Witness ==
    /\ last.op = "execute"
    /\ last.request.signature.signature.key = "K1"
    /\ last.request.signature.signature.over = signing_bytes(last.request.payload)
    /\ last.request.payload.deviceId = "other-device"
    /\ InvertedWindow(last.request)
    /\ last.response.code = "DEVICE_ID_MISMATCH"
    /\ \E policy \in policyFile : policy.security.requireDeviceBinding

----------------------------------------------------------------------------
(* Properties of the signature step *)

(* the keys a request is verified against: those of the policy when it has *)
(* any, else the bootstrap keys                                             *)
EffectiveKeys(policy) ==
    IF DOMAIN policy.security.publicKeys # {}
    THEN policy.security.publicKeys
    ELSE config.bootstrapPublicKeys

(* the signature step does not let the request through *)
SignatureFails(request, policy) ==
    \/ request.signature.keyId \notin DOMAIN EffectiveKeys(policy)
    \/ ToLower(request.signature.algorithm) # ToLower(policy.security.signatureAlgorithm)
    \/ ToLower(request.signature.algorithm) \notin verifiers
    \/ ~Ed25519Verify(EffectiveKeys(policy)[request.signature.keyId],
                      signing_bytes(request.payload), request.signature.signature)

(* C21: under requireSignature, a request that fails the signature step is *)
(* answered INVALID_SIGNATURE when a verifier is registered for its        *)
(* algorithm, and UNSUPPORTED_SIGNATURE_ALGORITHM when none is and its     *)
(* keyId is known.                                                         *)
C21_SignatureFailureCodes ==
    [][(/\ ExecuteCall
        /\ last'.stage \notin {"schema", "policy"})
       => \E request \in {last'.request} :
          \E policy \in {q \in policyFile : q.security.requireSignature} :
              SignatureFails(request, policy)
              => /\ last'.stage = "security"
                 /\ ToLower(request.signature.algorithm) \in verifiers
                        => last'.response.code = "INVALID_SIGNATURE"
                 /\ (/\ ToLower(request.signature.algorithm) \notin verifiers
                     /\ request.signature.keyId \in DOMAIN EffectiveKeys(policy))
                        => last'.response.code = "UNSUPPORTED_SIGNATURE_ALGORITHM"
    ]_vars

----------------------------------------------------------------------------
(* Properties of the freshness check *)

(* the allowed skew: a negative configured skew counts as none *)
AllowedSkew(policy) ==
    IF policy.security.maxClockSkewSeconds < 0 THEN 0
    ELSE policy.security.maxClockSkewSeconds

(* C22: a request that passed the signature and device checks and whose   *)
(* window is not inverted is answered REQUEST_NOT_YET_VALID exactly when  *)
(* now < issuedAt - S, REQUEST_EXPIRED exactly when now > expiresAt + S,  *)
(* and passes the security step exactly when issuedAt - S <= now <=       *)
(* expiresAt + S, for S the configured skew or 0 when that is negative.   *)
C22_FreshnessWindow ==
    [][(/\ ExecuteCall
        /\ last'.stage \notin {"schema", "policy"})
       => \E request \in {last'.request} :
          \E policy \in policyFile :
              (/\ ~BadSignature(request, policy)
               /\ ~WrongDevice(request, policy)
               /\ ~InvertedWindow(request))
              => /\ last'.response.code = "REQUEST_NOT_YET_VALID"
                     <=> now < request.payload.issuedAt - AllowedSkew(policy)
                 /\ last'.response.code = "REQUEST_EXPIRED"
                     <=> now > request.payload.expiresAt + AllowedSkew(policy)
                 /\ last'.stage # "security"
                     <=> /\ request.payload.issuedAt - AllowedSkew(policy) <= now
                         /\ now <= request.payload.expiresAt + AllowedSkew(policy)
    ]_vars

(* under a policy with a negative skew, a request was accepted at the very *)
(* second that is both its issuedAt and its expiresAt                      *)
C22_Witness ==
    /\ last.op = "execute"
    /\ \E policy \in policyFile : policy.security.maxClockSkewSeconds < 0
    /\ last.request.payload.issuedAt = now
    /\ last.request.payload.expiresAt = now
    /\ now > 0
    /\ last.response.ok
    /\ ~last.response.idempotentReplay

----------------------------------------------------------------------------
(* Properties of the nonce store *)

(* the time a nonce is kept: a configured TTL below 1 counts as 1 *)
EffectiveNonceTtl(policy) ==
    IF policy.security.nonceTtlSeconds < 1 THEN 1 ELSE policy.security.nonceTtlSeconds

(* the request gets as far as the nonce reservation *)
ReachesNonce(request) ==
    /\ Accepted(request)
    /\ request.payload.commandId \notin DOMAIN commands
    /\ \E policy \in policyFile : policy.security.requireNonce

(* C23: for a request that reaches the reservation, with T the effective   *)
(* TTL (the configured one, or 1 when that is below 1): a nonce stored at  *)
(* ts with now - ts <= T is refused with NONCE_REPLAY and the store stays  *)
(* as it was; a nonce that is not stored, or stored with now - ts > T, is  *)
(* not refused as a replay, and once the reservation has succeeded the     *)
(* store holds it with timestamp now together with exactly the entries it  *)
(* held before whose age is at most T.                                     *)
C23_NonceEviction ==
    [][(ExecuteCall /\ ReachesNonce(last'.request))
       => \E nonce \in {last'.request.payload.nonce} :
          \E policy \in policyFile :
          \E ttl \in {EffectiveNonceTtl(policy)} :
              IF nonce \in DOMAIN nonces /\ now - nonces[nonce] <= ttl
              THEN /\ last'.response.code = "NONCE_REPLAY"
                   /\ nonces' = nonces
              ELSE /\ last'.response.code # "NONCE_REPLAY"
                   /\ last'.stage = "nonce" => last'.response.code = "INTERNAL_ERROR"
                   /\ last'.stage # "nonce"
                          => /\ DOMAIN nonces'
                                    = {k \in DOMAIN nonces : now - nonces[k] <= ttl}
                                      \cup {nonce}
                             /\ nonces'[nonce] = now
                             /\ \A k \in DOMAIN nonces' \ {nonce} : nonces'[k] = nonces[k]
                             /\ \A k \in DOMAIN nonces' : now - nonces'[k] <= ttl
    ]_vars

(* under a configured TTL below 1, a nonce stored at second 0 was refused *)
(* at second 1 and, by the state shown, reserved anew at second 2 while   *)
(* an older entry of another nonce was evicted                            *)
C23_Witness ==
    /\ last.op = "execute"
    /\ \E policy \in policyFile : policy.security.nonceTtlSeconds < 1
    /\ now = 2
    /\ last.response.ok
    /\ ~last.response.idempotentReplay
    /\ last.request.payload.nonce = "n1"
    /\ nonces = [n \in {"n1"} |-> 2]
    /\ \E cid \in DOMAIN commands :
          /\ cid # last.request.payload.commandId
          /\ commands[cid].response.ok
          /\ HashedPayload(commands[cid].requestHash).nonce = "n1"
    /\ "c3" \in DOMAIN commands /\ commands["c3"].response.ok

----------------------------------------------------------------------------
(* Properties of the session gate *)

(* the call got as far as the command match, and the policy entry of its *)
(* command is enabled and requires a session                             *)
MatchedGated ==
    /\ ExecuteCall
    /\ last'.stage \in MatchedStages
    /\ \E policy \in policyFile :
       \E entry \in FindCommand(policy, last'.request.payload.command) :
           /\ entry.enabled
           /\ ToLower(entry.name) # "restart_service"
           /\ entry.requiresSession

(* C24: a matched, enabled command that requires a session and whose     *)
(* params have no sessionId key is answered SESSION_REQUIRED whatever its *)
(* other parameters are; the call ends at the gate, before parameter     *)
(* validation, session touch and handler, so the session store is as     *)
(* before and nothing is run.                                            *)
C24_SessionRequiredFirst ==
    [][(/\ MatchedGated
        /\ "sessionId" \notin DOMAIN last'.request.payload.params)
       => /\ last'.response.code = "SESSION_REQUIRED"
          /\ ~last'.response.ok
          /\ last'.stage = "session-gate"
          /\ sessions' = sessions
          /\ leases' = leases
          /\ last'.scripts = <<>>
    ]_vars

(* mount_vhd without sessionId and with an undeclared parameter was      *)
(* answered SESSION_REQUIRED while a session was in the store, after the *)
(* same undeclared parameter with a sessionId had been refused as        *)
(* INVALID_PARAMETER                                                     *)
C24_Witness ==
    /\ last.op = "execute"
    /\ last.request.payload.command = "mount_vhd"
    /\ DOMAIN last.request.payload.params = {"bogus"}
    /\ last.response.code = "SESSION_REQUIRED"
    /\ sessions # EmptyMap
    /\ "g7" \in DOMAIN commands
    /\ commands["g7"].response.code = "INVALID_PARAMETER"

----------------------------------------------------------------------------
(* Properties of the parameter rules *)

Validated == last.op = "validate"

(* C27: validate_params rejects with INVALID_PARAMETER every params map  *)
(* that has a key without a rule in the rule map, and the validated map  *)
(* of a call that succeeds has only keys that have a rule.               *)
C27_UndeclaredRejected ==
    Validated
        => /\ (\E key \in DOMAIN last.params : key \notin DOMAIN last.rules)
                  => /\ last.result.codes = {"INVALID_PARAMETER"}
                     /\ last.result.validated = EmptyMap
           /\ last.result.codes = {"OK"}
                  => /\ DOMAIN last.result.validated \subseteq DOMAIN last.rules
                     /\ DOMAIN last.params \subseteq DOMAIN last.rules

(* a key without a rule beside a valid "p" and "q" was rejected *)
C27_Witness ==
    /\ Validated
    /\ DOMAIN last.rules = {"p", "q"}
    /\ DOMAIN last.params = {"p", "q", "bogus"}
    /\ last.rules.p = BoolRule(TRUE, {}, {})
    /\ last.params.p = [bool |-> TRUE]
    /\ last.result.codes = {"INVALID_PARAMETER"}

(* C27_Witness without the key that has no rule: the call succeeds *)
C27_WitnessOk ==
    /\ Validated
    /\ DOMAIN last.rules = {"p", "q"}
    /\ DOMAIN last.params = {"p", "q"}
    /\ last.rules.p = BoolRule(TRUE, {}, {})
    /\ last.result.codes = {"OK"}
    /\ last.result.validated = [n \in {"p", "q"} |-> [bool |-> TRUE]]

(* the value of JSON type that a rule of this kind holds as v *)
JsonOf(kind, v) ==
    CASE kind = "bool" -> [bool |-> v]
      [] kind = "int" -> [int |-> v]
      [] OTHER -> [str |-> v]

(* what the validated map carries for a rule pinned to v: v itself, and *)
(* for a path rule the canonical form of v                              *)
PinnedValue(rule, v) ==
    IF rule.kind = "path"
    THEN [str |-> canonicalize_secure_path(v).path]
    ELSE JsonOf(rule.kind, v)

(* "p" has a fixed value and every key of the params has a rule *)
Pinned ==
    /\ Validated
    /\ last.rules.p.fixedValue # {}
    /\ DOMAIN last.params \subseteq DOMAIN last.rules

(* the validated map carries nothing under "p" but the fixed value *)
CarriesOnlyFixed ==
    \A fixed \in last.rules.p.fixedValue :
        (last.result.codes = {"OK"} /\ "p" \in DOMAIN last.result.validated)
            => last.result.validated.p = PinnedValue(last.rules.p, fixed)

(* C28 as stated: for a rule of any kind with fixedValue set and the     *)
(* parameter present, every supplied value other than fixedValue, the    *)
(* empty string included, is rejected with INVALID_PARAMETER, and the    *)
(* validated map carries no other value than fixedValue under the name.  *)
C28_OnlyFixedValueAccepted ==
    (Pinned /\ "p" \in DOMAIN last.params)
        => /\ \A fixed \in last.rules.p.fixedValue :
                  last.params.p # JsonOf(last.rules.p.kind, fixed)
                      => last.result.codes = {"INVALID_PARAMETER"}
           /\ CarriesOnlyFixed

(* the supplied value is the empty string and the rule takes strings *)
SuppliedEmpty ==
    /\ last.rules.p.kind \in {"string", "path"}
    /\ last.params.p = [str |-> <<>>]

(* C28, amended: for a rule of any kind with fixedValue set and the       *)
(* parameter present, every supplied value other than fixedValue is       *)
(* rejected with INVALID_PARAMETER, except the empty string under a       *)
(* string or path rule, which is taken as fixedValue and never rejected   *)
(* with INVALID_PARAMETER by the comparison; and the validated map        *)
(* carries no other value than fixedValue (for a path rule, its canonical *)
(* form) under the name.                                                  *)
C28_OnlyFixedOrEmptyAccepted ==
    (Pinned /\ "p" \in DOMAIN last.params)
        => /\ \A fixed \in last.rules.p.fixedValue :
                  /\ (last.params.p # JsonOf(last.rules.p.kind, fixed) /\ ~SuppliedEmpty)
                         => last.result.codes = {"INVALID_PARAMETER"}
                  /\ SuppliedEmpty
                         => last.result
                                = validate_params([params |-> last.rules],
                                      [last.params EXCEPT
                                          !.p = JsonOf(last.rules.p.kind, fixed)])
           /\ CarriesOnlyFixed

(* a string rule pinned to "X:" was given "Y:" and rejected it *)
C28_Witness ==
    /\ Pinned
    /\ last.rules.p = StringRule(TRUE, {}, {}, {Str("X:")})
    /\ DOMAIN last.params = {"p"}
    /\ last.params.p = [str |-> Str("Y:")]
    /\ last.result.codes = {"INVALID_PARAMETER"}

(* a string rule pinned to "X:" was given the empty string and handed on "X:" *)
C28_WitnessEmpty ==
    /\ Pinned
    /\ last.rules.p = StringRule(TRUE, {}, {}, {Str("X:")})
    /\ DOMAIN last.params = {"p"}
    /\ last.params.p = [str |-> <<>>]
    /\ last.result.codes = {"OK"}
    /\ last.result.validated.p = [str |-> Str("X:")]

(* "p" has a fixed value, is absent from the params, and is required or *)
(* has a default                                                        *)
PinnedAbsent ==
    /\ Pinned
    /\ "p" \notin DOMAIN last.params
    /\ last.rules.p.required \/ last.rules.p.default # {}

(* C29: for a rule of any kind with fixedValue set, when the parameter is *)
(* absent and the rule is required or has a default, validation succeeds  *)
(* and the validated map carries fixedValue (for a path rule, its         *)
(* canonical form) under the name: the default does not override          *)
(* fixedValue and the absence of a required parameter is not an error.    *)
C29_AbsentTakesFixed ==
    PinnedAbsent
        => /\ last.result.codes = {"OK"}
           /\ "p" \in DOMAIN last.result.validated
           /\ CarriesOnlyFixed

(* what the code does with an absent parameter under a rule with a fixed *)
(* value: a required rule without a default rejects; a string or path    *)
(* rule whose default is neither empty nor fixedValue rejects; every     *)
(* other rule succeeds, carrying fixedValue unless a list of allowed     *)
(* values excludes it                                                    *)
AbsentUnderFixed ==
    (Pinned /\ "p" \notin DOMAIN last.params)
        => \E rule \in {last.rules.p} : \E fixed \in rule.fixedValue :
               IF rule.required /\ rule.default = {}
               THEN last.result.codes = {"INVALID_PARAMETER"}
               ELSE IF /\ rule.kind \in {"string", "path"}
                       /\ \E d \in rule.default : d # <<>> /\ d # fixed
               THEN last.result.codes = {"INVALID_PARAMETER"}
               ELSE IF rule.kind = "string" /\ rule.allowValues # {}
                       /\ fixed \notin rule.allowValues
               THEN last.result.codes = {"INVALID_PARAMETER"}
               ELSE /\ last.result.codes = {"OK"}
                    /\ last.result.validated.p = PinnedValue(rule, fixed)

----------------------------------------------------------------------------
(* Properties of the session records *)

(* the time a session lives after a touch: a stored TTL below 1 counts as 1 *)
EffectiveTtl(ttl_seconds) == IF ttl_seconds < 1 THEN 1 ELSE ttl_seconds

RecordWellFormed(record) ==
    /\ record.issuedAt <= record.lastHeartbeatAt
    /\ record.expiresAt = record.lastHeartbeatAt + EffectiveTtl(record.ttlSeconds)

(* the command of the call ran to its end, not as a replay *)
Ran(command) ==
    /\ ExecuteCall
    /\ ToLower(last'.request.payload.command) = command
    /\ last'.stage = "done"
    /\ last'.response.ok
    /\ ~last'.response.idempotentReplay

(* the call touched its session with success: a heartbeat that ran, or a *)
(* command that requires a session and got as far as its handler         *)
TouchedSession ==
    \/ Ran("heartbeat")
    \/ /\ ExecuteCall
       /\ ToLower(last'.request.payload.command) = "mount_vhd"
       /\ last'.stage \in {"dispatch", "done"}
       /\ ~last'.response.idempotentReplay

(* C25: every record of the session store has issuedAt <= lastHeartbeatAt *)
(* and expiresAt = lastHeartbeatAt + max(1, ttlSeconds), after every      *)
(* step; begin_session stores a record for the device of the request with *)
(* ttlSeconds = max(1, policy.sessionTtlSeconds) and lastHeartbeatAt =    *)
(* issuedAt = now; a heartbeat or a touch that succeeds leaves the named   *)
(* record with lastHeartbeatAt = now and expiresAt = now + max(1,         *)
(* ttlSeconds); and no step changes the deviceId, issuedAt or ttlSeconds  *)
(* of a record that stays in the store.                                   *)
C25_SessionRecords ==
    [][/\ \A id \in DOMAIN sessions' : RecordWellFormed(sessions'[id])
       /\ \A id \in DOMAIN sessions \cap DOMAIN sessions' :
              /\ sessions'[id].deviceId = sessions[id].deviceId
              /\ sessions'[id].issuedAt = sessions[id].issuedAt
              /\ sessions'[id].ttlSeconds = sessions[id].ttlSeconds
              /\ sessions'[id] # sessions[id]
                     => /\ TouchedSession
                        /\ last'.request.payload.params.sessionId.str = id
       /\ Ran("begin_session")
              => \E policy \in policyFile :
                 \E id \in DOMAIN sessions' \ DOMAIN sessions :
                     /\ last'.response.result = {[sessionId |-> id,
                                                  issuedAt |-> now,
                                                  expiresAt |-> sessions'[id].expiresAt,
                                                  ttlSeconds |-> sessions'[id].ttlSeconds]}
                     /\ sessions'[id]
                            = [deviceId |-> last'.request.payload.deviceId,
                               issuedAt |-> now, lastHeartbeatAt |-> now,
                               ttlSeconds |-> EffectiveTtl(policy.security.sessionTtlSeconds),
                               expiresAt |-> now + EffectiveTtl(policy.security.sessionTtlSeconds)]
       /\ TouchedSession
              => \E id \in {last'.request.payload.params.sessionId.str} :
                     /\ id \in DOMAIN sessions /\ id \in DOMAIN sessions'
                     /\ sessions'[id].lastHeartbeatAt = now
                     /\ sessions'[id].expiresAt = now + EffectiveTtl(sessions[id].ttlSeconds)
    ]_vars

(* a session begun at second 0 under a TTL of two seconds was extended by *)
(* a heartbeat at second 1 and again by a mount at second 2               *)
C25_Witness ==
    /\ last.op = "execute"
    /\ last.request.payload.command = "mount_vhd"
    /\ last.stage = "done" /\ last.response.ok /\ ~last.response.idempotentReplay
    /\ now = 2
    /\ \E id \in DOMAIN sessions :
          /\ sessions[id] = [deviceId |-> DeviceId, issuedAt |-> 0, lastHeartbeatAt |-> 2,
                             ttlSeconds |-> 2, expiresAt |-> 4]
          /\ leases[id].touched
    /\ "h1" \in DOMAIN commands
    /\ commands["h1"].response.ok
    /\ commands["h1"].response.executedAt = 1

(* the call names a stored session in its params and comes from another *)
(* device than the one the session was begun for                         *)
ForeignCall ==
    /\ ExecuteCall
    /\ ToLower(last'.request.payload.command) \in {"heartbeat", "end_session", "mount_vhd"}
    /\ "sessionId" \in DOMAIN last'.request.payload.params
    /\ \E id \in {last'.request.payload.params.sessionId.str} :
          /\ id \in DOMAIN sessions
          /\ sessions[id].deviceId # last'.request.payload.deviceId

(* C26: a heartbeat, an end_session or a command that touches its session, *)
(* sent with a deviceId other than that of the stored session it names,    *)
(* is answered SESSION_NOT_FOUND and leaves the session store as it was:   *)
(* the session is neither extended nor removed, expired or not.            *)
C26_ForeignDeviceLeavesSession ==
    [][ForeignCall
           => /\ last'.response.code = "SESSION_NOT_FOUND"
              /\ ~last'.response.ok
              /\ sessions' = sessions
    ]_vars

(* another device sent a heartbeat for a session that has expired and the *)
(* record is still in the store                                           *)
C26_Witness ==
    /\ last.op = "execute"
    /\ last.request.payload.deviceId = "device-2"
    /\ last.request.payload.command = "heartbeat"
    /\ ~last.response.idempotentReplay
    /\ last.response.code = "SESSION_NOT_FOUND"
    /\ \E id \in {last.request.payload.params.sessionId.str} :
          /\ id \in DOMAIN sessions
          /\ sessions[id].deviceId = DeviceId
          /\ sessions[id].expiresAt <= now

(* another device sent an end_session for a session that has not expired *)
(* and the record is still in the store                                  *)
C26_WitnessEnd ==
    /\ last.op = "execute"
    /\ last.request.payload.deviceId = "device-2"
    /\ last.request.payload.command = "end_session"
    /\ ~last.response.idempotentReplay
    /\ last.response.code = "SESSION_NOT_FOUND"
    /\ \E id \in {last.request.payload.params.sessionId.str} :
          /\ id \in DOMAIN sessions
          /\ sessions[id].deviceId = DeviceId
          /\ sessions[id].expiresAt > now

----------------------------------------------------------------------------
(* Properties of concurrent calls *)

(* the thread holds the lock of its core: it is between lock() and the *)
(* drop of the guard                                                   *)
InCriticalSection(thread) ==
    threads[thread].pc \in {"locked", "persist", "write", "audit", "return"}

(* the call of the thread has returned after storing a command record *)
Persisted(thread) ==
    /\ threads[thread].pc = "done"
    /\ \E out \in threads[thread].out : out.persist

(* C8: calls on the same root directory are serialized by one lock: no two *)
(* threads are in their critical sections at once, and the record of every *)
(* call that has returned after persisting is in the command store.        *)
C8_Serialized ==
    /\ \A thread \in Threads : \A other \in Threads \ {thread} :
          ~(InCriticalSection(thread) /\ InCriticalSection(other))
    /\ \A thread \in Threads :
          Persisted(thread)
             => \E request \in threads[thread].request :
                    request.payload.commandId \in DOMAIN commands

(* calls made on one core instance are serialized, whatever the others do *)
SameCoreSerialized ==
    \A thread \in Threads : \A other \in Threads \ {thread} :
        threads[thread].core = threads[other].core
           => ~(InCriticalSection(thread) /\ InCriticalSection(other))

(* two calls on different core instances have both returned after          *)
(* persisting, and the command store holds the record of only one of them  *)
LostCommandRecord ==
    \E thread \in Threads : \E other \in Threads \ {thread} :
        /\ threads[thread].core # threads[other].core
        /\ Persisted(thread) /\ Persisted(other)
        /\ \E request \in threads[thread].request :
              request.payload.commandId \notin DOMAIN commands

(* C32: the lock of the core is released before the audit line is      *)
(* appended: the thread that appends its audit line does not hold the  *)
(* lock of its core.                                                   *)
C32_AuditAfterRelease ==
    [][\A thread \in Threads :
          (threads[thread].pc = "audit" /\ threads'[thread].pc = "return")
             => state_lock[threads[thread].core] # {thread}]_vars

(* what the code does: the thread holds the lock of its core while it   *)
(* appends its audit line, and no other thread of that core is past its *)
(* lock() until the line is written and the guard is dropped            *)
AuditUnderLock ==
    \A thread \in Threads :
        threads[thread].pc \in {"audit", "return"}
           => /\ state_lock[threads[thread].core] = {thread}
              /\ \A other \in Threads \ {thread} :
                    threads[other].core = threads[thread].core
                       => ~InCriticalSection(other)

(* a thread waits for the lock of its core while the thread that holds *)
(* it is about to append its audit line                                *)
WaitsForAudit ==
    \E thread \in Threads : \E other \in Threads \ {thread} :
        /\ threads[thread].core = threads[other].core
        /\ threads[thread].pc = "audit"
        /\ threads[other].pc = "waiting"

----------------------------------------------------------------------------
(* Properties of the key replacement *)

(* the signature of the request was made by a key of the set, under its keyId *)
SignedBy(request, keys) ==
    /\ request.signature.keyId \in DOMAIN keys
    /\ request.signature.signature.key = keys[request.signature.keyId]

(* C34 as stated: once an update that installs a policy with a non-empty *)
(* publicKeys set has succeeded, no later execute or update signed with  *)
(* a key that is not in that set succeeds.  The policy installed last is *)
(* that of the highest version accepted, as long as policy.json holds it *)
(* or is missing.                                                        *)
C34_InstalledKeysOnly ==
    [][(/\ UpdateCall \/ ExecuteCall
        /\ accepted > 0
        /\ policyFile \in {{}, {KeyPolicy(accepted)}}
        /\ DOMAIN KeysOfVersion(accepted) # {}
        /\ ~SignedBy(last'.request, KeysOfVersion(accepted)))
       => ~last'.response.ok]_vars

(* C34, amended: every execute and every update is verified against the  *)
(* key set of the policy that policy.json holds when the call is made:   *)
(* its publicKeys if there are any, else the bootstrap keys.  An execute *)
(* under a policy that requires signatures, signed with a key that is    *)
(* not in that set, returns INVALID_SIGNATURE and stores nothing; an     *)
(* update whose signature is looked at and was made with a key that is   *)
(* not in that set returns POLICY_UPDATE_INVALID_SIGNATURE and leaves    *)
(* the policy files as they were; an update that succeeds was signed     *)
(* with a key of that set.  While policy.json is missing, updates are    *)
(* verified against the bootstrap keys.                                  *)
C34_CurrentKeysOnly ==
    [][/\ (/\ ExecuteCall
           /\ validate_payload_basic(last'.request.payload) = "OK")
          => \A policy \in load_policy.policy :
                /\ ~SignedBy(last'.request, EffectiveKeys(policy))
                      => /\ last'.response.code = "INVALID_SIGNATURE"
                         /\ ~last'.response.ok
                         /\ last'.scripts = <<>>
                         /\ commands' = commands /\ nonces' = nonces
                /\ last'.response.ok => SignedBy(last'.request, EffectiveKeys(policy))
       /\ UpdateCall
          => /\ (/\ ReachesSignature(last'.request.payload)
                 /\ ~SignedBy(last'.request, UpdateKeys))
                   => /\ last'.response.code = "POLICY_UPDATE_INVALID_SIGNATURE"
                      /\ <<policyFile, policyTmp, policyBak>>'
                            = <<policyFile, policyTmp, policyBak>>
             /\ last'.response.ok => SignedBy(last'.request, UpdateKeys)
             /\ policyFile = {} => UpdateKeys = config.bootstrapPublicKeys]_vars

(* policy.json holds version 2 with the key K2, and an update of version 3 *)
(* signed with the bootstrap key K1 was refused                            *)
C34_Witness ==
    /\ last.op = "update"
    /\ accepted = 2
    /\ policyFile = {KeyPolicy(2)}
    /\ last.request.payload.version = 3
    /\ last.request.signature.signature.key = "K1"
    /\ last.response.code = "POLICY_UPDATE_INVALID_SIGNATURE"

(* policy.json holds version 2 with the key K2, and a request signed with *)
(* the bootstrap key K1 was refused                                       *)
C34_WitnessExecute ==
    /\ last.op = "execute"
    /\ policyFile = {KeyPolicy(2)}
    /\ last.request.signature.signature.key = "K1"
    /\ last.response.code = "INVALID_SIGNATURE"

----------------------------------------------------------------------------
(* Properties of the idempotency ledger *)

(* the records of the command store before a step are all in the store *)
(* after it, with their requestHash and response                       *)
RecordsKept ==
    \A command_id \in DOMAIN commands :
        /\ command_id \in DOMAIN commands'
        /\ commands'[command_id] = commands[command_id]

(* C35: the command store only grows: no call removes the record stored  *)
(* under a commandId or changes its requestHash or response, and so no   *)
(* record is written a second time.                                      *)
C35_StoreOnlyGrows == [][RecordsKept]_vars

(* what the code does: the records are kept unless the write of          *)
(* commands.json lost the file, and then the store reads as the empty map *)
StoreGrowsOrIsLost == [][RecordsKept \/ commands' = EmptyMap]_vars

----------------------------------------------------------------------------
(* Specification of the two locks of a core: the threads of one core       *)
(* instance register verifiers, execute requests and apply policy updates. *)
(* The holders of the verifiers lock are read off the positions of the     *)
(* threads: a thread at "writing" holds the write guard, a thread at       *)
(* "reading" or "u-reading" a read guard.  A read() waits while a writer   *)
(* holds the lock or waits for it, as a writer-preferring RwLock does.     *)

Algorithms == {"hmac", "ED25519"}

LockExecutes ==
    { Sign(Payload("c1", "n1", "query_disk", EmptyMap, 0, Never)),
      SignWith(Payload("c2", "n2", "query_disk", EmptyMap, 0, Never), "ed25519", "k9", "K9") }

LockUpdates ==
    { Sign(UpdatePayload(2, TestPolicy(2))),
      SignWith(UpdatePayload(2, TestPolicy(2)), "hmac", "k1", "K1"),
      Sign(UpdatePayload(1, TestPolicy(1))) }

RegistryWriters == {thread \in Threads : threads[thread].pc = "writing"}

WaitingWriters == {thread \in Threads : threads[thread].pc = "r-waiting"}

(* faulty variant: the read guard is never dropped *)
RegistryReaders_leaked ==
    {thread \in Threads :
        threads[thread].pc \in {"reading", "u-reading", "persist", "write", "audit",
                                "return", "done"}}

(* the threads inside verify_with_keys, between read() and the return *)
RegistryReaders ==
    {thread \in Threads : threads[thread].pc \in {"reading", "u-reading"}}

(* verify_with_keys gets as far as self.verifiers.read() *)
ReadsRegistry(signature, keys, expected_algorithm) ==
    /\ signature.keyId \in DOMAIN keys
    /\ \A expected \in expected_algorithm :
          EqIgnoreAsciiCase(ToLower(signature.algorithm), expected)

(* execute_locked gets as far as the signature of the request *)
ExecuteReadsRegistry(request) ==
    /\ validate_payload_basic(request.payload) = "OK"
    /\ \E policy \in load_policy.policy :
          /\ policy.defaultAction = "deny"
          /\ policy.security.requireSignature
          /\ ReadsRegistry(request.signature, EffectiveKeys(policy),
                           {policy.security.signatureAlgorithm})

(* apply_policy_update_locked gets as far as the signature of the update *)
UpdateReadsRegistry(request) ==
    /\ ReachesSignature(request.payload)
    /\ DOMAIN UpdateKeys # {}
    /\ ReadsRegistry(request.signature, UpdateKeys, {})

LockUnchanged ==
    UNCHANGED <<config, policyFile, policyTmp, policyBak, nonces, commands, sessions, now,
                faults, accepted, last, auditLog, auditRoom, nanos, leases, dispatched>>

(* a caller calls apply_policy_update *)
InvokeUpdate(thread, request) ==
    /\ threads[thread].pc = "idle"
    /\ threads' = [threads EXCEPT ![thread].pc = "u-waiting", ![thread].request = {request}]
    /\ UNCHANGED <<verifiers, state_lock>>
    /\ LockUnchanged

(* a caller calls register_signature_verifier *)
InvokeRegister(thread) ==
    /\ threads[thread].pc = "idle"
    /\ threads' = [threads EXCEPT ![thread].pc = "r-waiting"]
    /\ UNCHANGED <<verifiers, state_lock>>
    /\ LockUnchanged

(* self.verifiers.write() *)
LockRegistryWrite(thread) ==
    /\ threads[thread].pc = "r-waiting"
    /\ RegistryWriters = {}
    /\ RegistryReaders = {}
    /\ threads' = [threads EXCEPT ![thread].pc = "writing"]
    /\ UNCHANGED <<verifiers, state_lock>>
    /\ LockUnchanged

(* registry.insert(verifier.algorithm().to_lowercase(), verifier), and the *)
(* write guard is dropped                                                  *)
InsertVerifier(thread) ==
    /\ threads[thread].pc = "writing"
    /\ \E algorithm \in Algorithms : verifiers' = verifiers \cup {ToLower(algorithm)}
    /\ threads' = [threads EXCEPT ![thread].pc = "done"]
    /\ UNCHANGED state_lock
    /\ LockUnchanged

(* self.verifiers.read() in verify_with_keys, called by execute_locked *)
LockRegistryRead(thread) ==
    /\ threads[thread].pc = "locked"
    /\ \E request \in threads[thread].request : ExecuteReadsRegistry(request)
    /\ RegistryWriters = {}
    /\ WaitingWriters = {}
    /\ threads' = [threads EXCEPT ![thread].pc = "reading"]
    /\ UNCHANGED <<verifiers, state_lock>>
    /\ LockUnchanged

(* execute_locked: the verifier is looked up and asked under the read guard, *)
(* the guard is dropped and the rest of the pipeline runs                    *)
RunVerified(thread) ==
    /\ \/ threads[thread].pc = "reading"
       \/ /\ threads[thread].pc = "locked"
          /\ \E request \in threads[thread].request : ~ExecuteReadsRegistry(request)
    /\ RunLockedFrom(thread)

(* self.state_lock.lock() in apply_policy_update *)
UpdateAcquireLock(thread) ==
    /\ threads[thread].pc = "u-waiting"
    /\ state_lock[threads[thread].core] = {}
    /\ state_lock' = [state_lock EXCEPT ![threads[thread].core] = {thread}]
    /\ threads' = [threads EXCEPT ![thread].pc = "u-locked"]
    /\ UNCHANGED verifiers
    /\ LockUnchanged

(* self.verifiers.read() in verify_with_keys, called by *)
(* apply_policy_update_locked                            *)
UpdateRegistryRead(thread) ==
    /\ threads[thread].pc = "u-locked"
    /\ \E request \in threads[thread].request : UpdateReadsRegistry(request)
    /\ RegistryWriters = {}
    /\ WaitingWriters = {}
    /\ threads' = [threads EXCEPT ![thread].pc = "u-reading"]
    /\ UNCHANGED <<verifiers, state_lock>>
    /\ LockUnchanged

(* apply_policy_update_locked: the signature is verified under the read *)
(* guard, the guard is dropped and the policy file is replaced          *)
UpdateVerified(thread) ==
    /\ \/ threads[thread].pc = "u-reading"
       \/ /\ threads[thread].pc = "u-locked"
          /\ \E request \in threads[thread].request : ~UpdateReadsRegistry(request)
    /\ \E request \in threads[thread].request :
       \E out \in {apply_policy_update_locked(request, FsOk)} :
        /\ policyFile' = out.file
        /\ policyTmp' = out.tmp
        /\ policyBak' = out.bak
        /\ accepted' = IF out.code = "OK" THEN Max(accepted, request.payload.version)
                       ELSE accepted
        /\ threads' = [threads EXCEPT ![thread].out = {out}, ![thread].pc = "return"]
    /\ UNCHANGED <<config, verifiers, nonces, commands, sessions, now, faults, state_lock,
                   last, auditLog, auditRoom, nanos, leases, dispatched>>

InitLocks ==
    /\ InitStores({TestConfig(FALSE)}, {{TestPolicy(1)}})
    /\ auditRoom = MaxLog
    /\ state_lock = [core \in {1} |-> {}]
    /\ threads = [thread \in Threads |-> Thread("idle", 1, {}, {}, {})]

(* the steps of a call that has been made *)
LockStep(thread) ==
    \/ LockRegistryWrite(thread)
    \/ InsertVerifier(thread)
    \/ AcquireLock(thread)
    \/ LockRegistryRead(thread)
    \/ RunVerified(thread)
    \/ ReadCommandStore(thread)
    \/ WriteCommandStore(thread)
    \/ WriteAuditLog(thread)
    \/ UpdateAcquireLock(thread)
    \/ UpdateRegistryRead(thread)
    \/ UpdateVerified(thread)
    \/ ReleaseLock(thread)

NextLocks ==
    \E thread \in Threads :
        \/ \E request \in LockExecutes : Invoke(thread, request)
        \/ \E request \in LockUpdates : InvokeUpdate(thread, request)
        \/ InvokeRegister(thread)
        \/ LockStep(thread)

(* every thread that can take a step of its call is scheduled in the end *)
SpecLocks ==
    InitLocks /\ [][NextLocks]_vars /\ \A thread \in Threads : WF_vars(LockStep(thread))

(* the locks a thread holds *)
HoldsLock(thread) ==
    \/ state_lock[threads[thread].core] = {thread}
    \/ thread \in RegistryWriters
    \/ thread \in RegistryReaders

(* C36: the verifiers lock and the core lock cannot deadlock: whatever the *)
(* interleaving of registrations, executes and policy updates, every call  *)
(* that is made returns in the end, holding none of the locks.             *)
C36_EveryCallReturns ==
    \A thread \in Threads :
        (threads[thread].pc # "idle")
            ~> (threads[thread].pc = "done" /\ ~HoldsLock(thread))

(* the lock order: a thread that holds or waits for the write guard holds *)
(* no other lock, and a thread with a read guard holds the core lock      *)
LockOrder ==
    \A thread \in Threads :
        /\ thread \in RegistryWriters \cup WaitingWriters
              => state_lock[threads[thread].core] # {thread}
        /\ thread \in RegistryReaders => state_lock[threads[thread].core] = {thread}

(* a registration waits for the write guard while an execute holds the *)
(* core lock and a read guard                                          *)
C36_Witness ==
    \E thread \in Threads : \E other \in Threads \ {thread} :
        /\ threads[thread].pc = "r-waiting"
        /\ threads[other].pc = "reading"
        /\ state_lock[1] = {other}

(* both calls have returned: an update signed under "hmac" was installed *)
(* after the verifier for it was registered                              *)
C36_WitnessDone ==
    /\ \A thread \in Threads : threads[thread].pc = "done"
    /\ "hmac" \in verifiers
    /\ accepted = 2
    /\ state_lock[1] = {}

----------------------------------------------------------------------------
(* Properties of the version on disk *)

(* the policies load_policy reads from a policy file *)
Readable(file) == {f \in file : f.kind = "policy"}

(* policy.json is readable before and after the call, and its version has *)
(* not decreased; after a successful update it has increased              *)
VersionKept ==
    \A before \in Readable(policyFile) : \A after \in Readable(policyFile') :
        /\ after.version >= before.version
        /\ last'.response.ok => after.version > before.version

(* C37 as stated: the version of policy.json never decreases over an      *)
(* update, a successful update increases it, and no update with a version *)
(* at or below a previously installed version is installed.               *)
C37_NeverBelowInstalled ==
    [][UpdateCall
       => /\ VersionKept
          /\ last'.response.ok => last'.request.payload.version > accepted]_vars

(* C37: whenever policy.json is readable before and after an update, its   *)
(* version after the call is at least its version before, and greater     *)
(* after a successful update; a successful update leaves the policy of    *)
(* its version in policy.json, and that version is above the version of   *)
(* the policy that policy.json held when the call was made, if it held a  *)
(* readable one.                                                           *)
C37_VersionOnDisk ==
    [][UpdateCall
       => /\ VersionKept
          /\ last'.response.ok
                => /\ policyFile' = {last'.request.payload.policy}
                   /\ last'.request.payload.policy.version
                         = last'.request.payload.version
                   /\ \A before \in Readable(policyFile) :
                          last'.request.payload.version > before.version]_vars

(* an update has replaced a readable policy by that of version 3 *)
C37_Witness ==
    /\ last.op = "update"
    /\ last.response.ok
    /\ "renameToBak" \in last.used
    /\ policyFile = {TestPolicy(3)}

(* an update failed after the backup and the restore put the policy back *)
C37_WitnessRollback ==
    /\ last.op = "update"
    /\ last.response.code = "POLICY_UPDATE_ROLLBACK"
    /\ last.response.rolledBack
    /\ Readable(policyFile) # {}

----------------------------------------------------------------------------
(* Properties of the dispatch *)

(* the call ran a handler *)
RanHandler == ExecuteCall /\ last'.stage \in {"dispatch", "done"}

(* C38: the handler is invoked at most once per commandId: a call whose *)
(* commandId a handler has been run for before does not run a handler.  *)
C38_DispatchedOnce ==
    [][RanHandler => last'.request.payload.commandId \notin dispatched]_vars

(* what the code does: a call runs no handler while the command store *)
(* holds a record under its commandId                                 *)
NoDispatchOverRecord ==
    [][RanHandler => last'.request.payload.commandId \notin DOMAIN commands]_vars

----------------------------------------------------------------------------
(* Specification of the policy swap next to the executes: the launcher    *)
(* builds a core for every call (build_privexec_core), so the thread of   *)
(* an update and the thread of an execute may be on one core instance or  *)
(* on two, over the same root directory.  The file-system calls of        *)
(* replace_policy_atomically are steps of their own; none of them fails.  *)

SwapUpdates ==
    { Sign(UpdatePayload(v, TestPolicy(v))) : v \in Versions }

SwapExecutes ==
    { Sign(Payload("c1", "n1", "query_disk", EmptyMap, 0, Never)),
      Sign(Payload("c2", "n2", "query_disk", EmptyMap, 0, Never)) }

UpdatePcs == {"u-waiting", "u-locked", "u-tmp", "u-bak", "u-swapped"}

(* the thread makes, or has made, an execute call *)
IsExecute(thread) ==
    \E request \in threads[thread].request : "commandId" \in DOMAIN request.payload

SwapUnchanged ==
    UNCHANGED <<config, verifiers, nonces, commands, sessions, now, faults, last, auditLog,
                auditRoom, nanos, leases, dispatched>>

(* apply_policy_update is called while no other update is under way *)
SwapInvokeUpdate(thread, request) ==
    /\ \A other \in Threads : threads[other].pc \notin UpdatePcs
    /\ InvokeUpdate(thread, request)

(* apply_policy_update_locked up to fs::write(&tmp_path, bytes): an update *)
(* that does not pass the checks returns its code                          *)
WritePolicyTmp(thread) ==
    /\ threads[thread].pc = "u-locked"
    /\ \E request \in threads[thread].request :
       \E out \in {apply_policy_update_locked(request, FsOk)} :
          IF out.used = {}
          THEN /\ threads' = [threads EXCEPT ![thread].out = {out}, ![thread].pc = "return"]
               /\ UNCHANGED <<policyFile, policyTmp, policyBak>>
          ELSE /\ threads' = [threads EXCEPT ![thread].pc = "u-tmp"]
               /\ policyTmp' = {request.payload.policy}
               /\ UNCHANGED <<policyFile, policyBak>>
    /\ UNCHANGED <<accepted, state_lock>>
    /\ SwapUnchanged

(* policy.json does not exist: fs::rename(&tmp_path, &policy_path);   *)
(* it exists: fs::rename(&policy_path, &bak_path)                     *)
RenamePolicyToBak(thread) ==
    /\ threads[thread].pc = "u-tmp"
    /\ \E request \in threads[thread].request :
          IF policyFile = {}
          THEN /\ policyFile' = policyTmp
               /\ policyTmp' = {}
               /\ policyBak' = policyBak
               /\ accepted' = Max(accepted, request.payload.version)
               /\ threads' = [threads EXCEPT
                                 ![thread].out = {[code |-> "OK", rolledBack |-> FALSE]},
                                 ![thread].pc = "return"]
          ELSE /\ policyBak' = policyFile
               /\ policyFile' = {}
               /\ policyTmp' = policyTmp
               /\ accepted' = accepted
               /\ threads' = [threads EXCEPT ![thread].pc = "u-bak"]
    /\ UNCHANGED state_lock
    /\ SwapUnchanged

(* policy_replace_fail_after_backup: the tmp file is removed and the backup *)
(* renamed back; otherwise fs::rename(&tmp_path, &policy_path)              *)
RenameTmpToPolicy(thread) ==
    /\ threads[thread].pc = "u-bak"
    /\ \E request \in threads[thread].request :
          IF config.policyReplaceFailAfterBackup
          THEN /\ policyTmp' = {}
               /\ policyFile' = policyBak
               /\ policyBak' = {}
               /\ accepted' = accepted
               /\ threads' = [threads EXCEPT
                                 ![thread].out = {[code |-> "POLICY_UPDATE_ROLLBACK",
                                                   rolledBack |-> TRUE]},
                                 ![thread].pc = "return"]
          ELSE /\ policyFile' = policyTmp
               /\ policyTmp' = {}
               /\ policyBak' = policyBak
               /\ accepted' = Max(accepted, request.payload.version)
               /\ threads' = [threads EXCEPT ![thread].pc = "u-swapped"]
    /\ UNCHANGED state_lock
    /\ SwapUnchanged

(* fs::remove_file(&bak_path), and Ok(()) *)
RemovePolicyBak(thread) ==
    /\ threads[thread].pc = "u-swapped"
    /\ policyBak' = {}
    /\ threads' = [threads EXCEPT ![thread].out = {[code |-> "OK", rolledBack |-> FALSE]},
                                  ![thread].pc = "return"]
    /\ UNCHANGED <<policyFile, policyTmp, accepted, state_lock>>
    /\ SwapUnchanged

InitSwap ==
    /\ InitStores({TestConfig(FALSE), TestConfig(TRUE)}, {{TestPolicy(1)}})
    /\ auditRoom = MaxLog
    /\ state_lock = [core \in Cores |-> {}]
    /\ threads \in {[thread \in Threads |-> Thread("idle", placed[thread], {}, {}, {})] :
                       placed \in [Threads -> Cores]}

NextSwap ==
    \E thread \in Threads :
        \/ \E request \in SwapExecutes : Invoke(thread, request)
        \/ \E request \in SwapUpdates : SwapInvokeUpdate(thread, request)
        \/ AcquireLock(thread)
        \/ RunLocked(thread)
        \/ ReadCommandStore(thread)
        \/ WriteCommandStore(thread)
        \/ WriteAuditLog(thread)
        \/ UpdateAcquireLock(thread)
        \/ WritePolicyTmp(thread)
        \/ RenamePolicyToBak(thread)
        \/ RenameTmpToPolicy(thread)
        \/ RemovePolicyBak(thread)
        \/ ReleaseLock(thread)

SpecSwap == InitSwap /\ [][NextSwap]_vars

(* the execute of the thread found no policy it could load *)
SawNoPolicy(thread) ==
    /\ IsExecute(thread)
    /\ \E out \in threads[thread].out :
          out.response.code \in {"POLICY_NOT_FOUND", "POLICY_INVALID"}

(* C39: an execute that runs next to a policy update loads the policy of *)
(* before the update or that of after it: policy.json holds a policy     *)
(* before and after every update here, so no execute returns             *)
(* POLICY_NOT_FOUND or POLICY_INVALID.                                   *)
C39_SwapNotObserved == \A thread \in Threads : ~SawNoPolicy(thread)

(* what the code does: an execute on the core instance of the update *)
(* does not see the swap                                             *)
SameCoreSwapNotObserved ==
    \A thread \in Threads :
        (\A other \in Threads : threads[other].core = threads[thread].core)
            => ~SawNoPolicy(thread)

(* the policy an execute loads while policy.json is under its backup name *)
PolicyAway ==
    \E thread \in Threads :
        /\ threads[thread].pc = "u-bak"
        /\ policyFile = {}
        /\ policyBak # {}
        /\ \E other \in Threads \ {thread} :
              /\ threads[other].core # threads[thread].core
              /\ threads[other].pc = "locked"

----------------------------------------------------------------------------
(* Specification of the replays: one command is sent again and again, as   *)
(* it was signed, with a signature of another key, and in the name of      *)
(* another device, while the clock runs past its validity window and an    *)
(* update replaces the keys of the policy.                                 *)

ReplayPolicies ==
    { [TestPolicy(1) EXCEPT !.security.maxClockSkewSeconds = skew] : skew \in {0, 1} }

ReplayRequests ==
    { Sign(Payload("c1", "n1", "query_disk", EmptyMap, 0, 0)),
      Sign(Payload("c1", "n1", "query_disk", EmptyMap, 0, MaxTime)),
      SignWith(Payload("c1", "n1", "query_disk", EmptyMap, 0, MaxTime),
               "ed25519", "k1", "K2"),
      Sign([Payload("c1", "n1", "query_disk", EmptyMap, 0, MaxTime)
               EXCEPT !.deviceId = "device-2"]) }

InitReplay == \E policy \in ReplayPolicies : InitQuiet(policy)

ReplayExecute == \E request \in ReplayRequests : execute_request(request)

ReplayUpdate == apply_policy_update(Sign(UpdatePayload(2, KeyPolicy(2))))

NextReplay == ReplayExecute \/ ReplayUpdate \/ Return \/ Tick

SpecReplay == InitReplay /\ [][NextReplay]_vars

(* the request passes signature, device binding and freshness under policy *)
(* at the time of the call                                                 *)
PassesSecurity(request, policy) ==
    /\ ~BadSignature(request, policy)
    /\ ~WrongDevice(request, policy)
    /\ ~InvertedWindow(request)
    /\ request.payload.issuedAt - AllowedSkew(policy) <= now
    /\ now <= request.payload.expiresAt + AllowedSkew(policy)

(* the command store holds the record of this very request *)
StoredBefore(request) ==
    /\ request.payload.commandId \in DOMAIN commands
    /\ commands[request.payload.commandId].requestHash = RequestHashOf(request)

(* C40: a stored response is served as a replay only while the request     *)
(* passes the security checks under the current policy: a request that     *)
(* fails signature, device binding or freshness gets neither a replay nor  *)
(* a result, and the request of a stored record sent again with a good     *)
(* signature after now > expiresAt + S is answered REQUEST_EXPIRED.        *)
C40_ReplayOnlyWhileSecure ==
    [][ExecuteCall
       => \A policy \in policyFile :
             /\ ~PassesSecurity(last'.request, policy)
                   => /\ ~last'.response.idempotentReplay
                      /\ ~last'.response.ok
                      /\ last'.response.result = {}
                      /\ last'.stage = "security"
             /\ (/\ StoredBefore(last'.request)
                 /\ ~BadSignature(last'.request, policy)
                 /\ ~WrongDevice(last'.request, policy)
                 /\ now > last'.request.payload.expiresAt + AllowedSkew(policy))
                   => last'.response.code = "REQUEST_EXPIRED"
             /\ last'.response.idempotentReplay
                   => /\ StoredBefore(last'.request)
                      /\ PassesSecurity(last'.request, policy)]_vars

(* the request of a stored, successful response was sent again after its *)
(* window and answered REQUEST_EXPIRED                                   *)
C40_Witness ==
    /\ last.op = "execute"
    /\ last.response.code = "REQUEST_EXPIRED"
    /\ StoredBefore(last.request)
    /\ commands[last.request.payload.commandId].response.ok
    /\ now > last.request.payload.expiresAt + 1

(* the payload of a stored response was sent with the signature of another *)
(* key and answered INVALID_SIGNATURE                                      *)
C40_WitnessSignature ==
    /\ last.op = "execute"
    /\ last.response.code = "INVALID_SIGNATURE"
    /\ StoredBefore(last.request)
    /\ commands[last.request.payload.commandId].response.ok

(* the stored response was served as a replay inside the window *)
C40_WitnessReplay ==
    /\ last.op = "execute"
    /\ last.response.idempotentReplay
    /\ last.response.ok
    /\ now > 0

====
